---- MODULE Spec2Model ----
(***************************************************************************)
(* A model of helix-os: the three-tier memory store (memory/), the build   *)
(* pipeline (builder/controller.py, compiler.py, dockerizer.py) and the    *)
(* task orchestrator (mvp/mvp_runner.py).                                  *)
(*                                                                         *)
(* Real numbers are kept exact: a duration mean is a reduced fraction      *)
(* <<num, den>>, a lifecycle score is an integer in units of 10^-7.        *)
(***************************************************************************)
EXTENDS Integers, Sequences, FiniteSets, TLC

(***************************************************************************)
(* Bounds of the model.                                                    *)
(***************************************************************************)
\* number of TaskMemory objects the memory scenario creates
MaxTasks == 2
\* number of lifecycle passes the memory scenario runs
MaxPasses == 1
\* number of TaskMemory objects the running-mean scenario creates
MaxCalls == 3
\* number of handle_complex_task calls the orchestrator scenario makes
MaxRuns == 1

None == "none"
\* no image reference (agent_image is None)
NoImage == [prefix |-> "", class |-> "", infix |-> << >>, suffix |-> 0]
\* no TaskMemory id
NoId == 0

\* the classes the memory scenario records tasks for
MemTypes == {"research_agent", "compute_agent"}
\* execution_time_ms values
Durations == {0, 3}
\* execution_time_ms values of the running-mean scenario
MeanDurations == {0, 1, 4}
\* the outcomes the callers of complete_task pass
Outcomes == {"success", "failure", "partial"}
\* the days the memory scenario's clock shows, one after the other
Days == {0, 7, 60}
\* cosine similarities of an entry to the current task, in units of 10^-6
RelLevels == {0, 1000000}

VARIABLES
    mem,      \* the MemoryManager: working slot, episodic rows, semantic rows, archive
    now,      \* the day datetime.now() falls on
    obs,      \* observations of the memory calls made so far (history)
    memory,   \* whether get_memory_manager() returns a MemoryManager
    run,      \* handle_complex_task: its position and locals
    ctl,      \* SubAgentController.create_agent: its locals
    registry, \* the container registry: image name -> pushed image
    clock,    \* int(time.time()), in seconds
    trace,    \* observations of the current handle_complex_task call (history)
    probe,    \* one Dockerizer.verify_image call under observation
    stem,     \* one pair of WASMRegistry._stem calls under observation
    rec,      \* one EpisodicMemory.store / recall_by_id pair under observation
    uni,      \* one UnifiedAgentRegistry.search call under observation
    wasm,     \* the WASM registry directory and the calls running on it
    fn,       \* one classify_task or is_wasm_suitable call under observation
    par       \* the processes sharing one memory database: their positions and locals

\* the orchestrator's part of the state
\* the calls observed on their own
side == <<stem, rec, uni, wasm, fn, par>>

\* no such call is under way
NoCall == [state |-> "idle"]
SideIdle ==
    /\ stem = NoCall
    /\ rec = NoCall
    /\ uni = NoCall
    /\ wasm = NoCall
    /\ fn = NoCall
    /\ par = NoCall

orch == <<memory, run, ctl, registry, clock, trace, probe, side>>

vars == <<mem, now, obs, memory, run, ctl, registry, clock, trace, probe, side>>

(***************************************************************************)
(* Exact arithmetic.                                                       *)
(***************************************************************************)
RECURSIVE Gcd(_, _)
Gcd(a, b) == IF b = 0 THEN a ELSE Gcd(b, a % b)

\* the fraction n/d (d > 0, n >= 0) in lowest terms
Frac(n, d) == LET g == Gcd(n, d) IN <<n \div g, d \div g>>

\* a table with no rows
EmptyMap == [i \in {} |-> None]

(***************************************************************************)
(* memory/schemas.py                                                       *)
(***************************************************************************)
\* TaskMemory(raw_task, refined_task, agent_type, outcome="pending",
\*            current_tier=WORKING), the other fields at their defaults
TaskMemory(id, raw, refined, atype, day) ==
    [ id |-> id, last_accessed |-> day, access_count |-> 0,
      current_tier |-> "working", embedding |-> None,
      raw_task |-> raw, refined_task |-> refined, agent_type |-> atype,
      agent_image |-> NoImage, outcome |-> "pending", execution_time_ms |-> 0,
      error_message |-> None, result_summary |-> None ]

\* TaskMemory.success_rate, in units of 10^-6
TaskSuccessRate(t) ==
    IF t.outcome = "success" THEN 1000000
    ELSE IF t.outcome = "partial" THEN 500000 ELSE 0

(***************************************************************************)
(* memory/episodic.py                                                      *)
(***************************************************************************)
\* EpisodicMemory.store: fills the embedding in, then INSERT OR REPLACE by id
EpisodicStore(epi, t) ==
    LET row == IF t.embedding = None THEN [t EXCEPT !.embedding = "emb"] ELSE t
    IN  [i \in DOMAIN epi \cup {t.id} |-> IF i = t.id THEN row ELSE epi[i]]

\* EpisodicMemory._touch
EpisodicTouch(epi, id, day) ==
    IF id \in DOMAIN epi
    THEN [epi EXCEPT ![id].last_accessed = day,
                     ![id].access_count = @ + 1]
    ELSE epi

\* DELETE FROM episodic_memories WHERE id = ?
EpisodicDelete(epi, id) == [i \in DOMAIN epi \ {id} |-> epi[i]]

(***************************************************************************)
(* memory/semantic.py                                                      *)
(***************************************************************************)
\* a running average that forgets how many executions the old mean stands for
RunningAvgHalves(avg, total, t) == Frac(avg[1] + t * avg[2], avg[2] * 2)

\* the running average (avg * (total - 1) + t) / total, total already incremented
RunningAvg(avg, total, t) ==
    Frac(avg[1] * (total - 1) + t * avg[2], avg[2] * total)

\* update_from_execution counting a success without counting the execution
UpdateFromExecutionMiscounts(sem, atype, success, t, day) ==
    IF atype \in DOMAIN sem
    THEN [sem EXCEPT ![atype].successful_executions = @ + 1]
    ELSE [a \in DOMAIN sem \cup {atype} |->
            IF a = atype
            THEN [ agent_type |-> atype, last_accessed |-> day, access_count |-> 0,
                   total_executions |-> 1, successful_executions |-> 1,
                   avg_execution_time_ms |-> Frac(t, 1),
                   task_patterns |-> << >>, embedding |-> "emb" ]
            ELSE sem[a]]

\* SemanticMemory.update_from_execution
UpdateFromExecution(sem, atype, success, t, day) ==
    IF atype \in DOMAIN sem
    THEN LET old == sem[atype]
             total == old.total_executions + 1
         IN  [sem EXCEPT ![atype] =
                [old EXCEPT !.total_executions = total,
                            !.successful_executions =
                                IF success THEN @ + 1 ELSE @,
                            !.avg_execution_time_ms =
                                RunningAvg(old.avg_execution_time_ms, total, t)]]
    ELSE [a \in DOMAIN sem \cup {atype} |->
            IF a = atype
            THEN [ agent_type |-> atype, last_accessed |-> day, access_count |-> 0,
                   total_executions |-> 1,
                   successful_executions |-> IF success THEN 1 ELSE 0,
                   avg_execution_time_ms |-> Frac(t, 1),
                   task_patterns |-> << >>, embedding |-> "emb" ]
            ELSE sem[a]]

\* SemanticMemory.delete
SemanticDelete(sem, atype) == [a \in DOMAIN sem \ {atype} |-> sem[a]]

(***************************************************************************)
(* memory/manager.py                                                       *)
(***************************************************************************)
\* MemoryManager.__init__ on a fresh database
NewMemory ==
    [ working |-> {}, episodic |-> EmptyMap, semantic |-> EmptyMap,
      archived |-> EmptyMap, nextId |-> 1 ]

\* WorkingContext.current_task is None, or the one task in the slot
HasCurrent(m) == m.working # {}
Current(m) == CHOOSE t \in m.working : TRUE
CurrentId(m) == IF HasCurrent(m) THEN Current(m).id ELSE NoId

\* start_task storing the pending task it replaces
StartTaskStoresReplaced(m, raw, refined, atype, day) ==
    [m EXCEPT !.working = {TaskMemory(m.nextId, raw,
                                      IF refined = "" THEN raw ELSE refined,
                                      atype, day)},
              !.episodic = IF HasCurrent(m) THEN EpisodicStore(@, Current(m))
                           ELSE @,
              !.nextId = @ + 1]

\* MemoryManager.start_task: a new pending TaskMemory replaces the current task
StartTask(m, raw, refined, atype, day) ==
    [m EXCEPT !.working = {TaskMemory(m.nextId, raw,
                                      IF refined = "" THEN raw ELSE refined,
                                      atype, day)},
              !.nextId = @ + 1]

\* complete_task storing the task without moving it to the episodic tier
CompleteTaskKeepsTier(m, outcome, summary, t, image, err, day) ==
    IF ~HasCurrent(m)
    THEN m
    ELSE LET task == [Current(m) EXCEPT !.outcome = outcome,
                                        !.result_summary = summary,
                                        !.execution_time_ms = t,
                                        !.agent_image = image,
                                        !.error_message = err]
         IN  [m EXCEPT !.working = {},
                       !.episodic = EpisodicStore(m.episodic, task),
                       !.semantic = UpdateFromExecution(m.semantic, task.agent_type,
                                                        outcome = "success", t, day)]

\* MemoryManager.complete_task
CompleteTask(m, outcome, summary, t, image, err, day) ==
    IF ~HasCurrent(m)
    THEN m
    ELSE LET task == [Current(m) EXCEPT !.outcome = outcome,
                                       !.result_summary = summary,
                                       !.execution_time_ms = t,
                                       !.agent_image = image,
                                       !.error_message = err,
                                       !.current_tier = "episodic"]
         IN  [m EXCEPT !.working = {},
                       !.episodic = EpisodicStore(m.episodic, task),
                       !.semantic = UpdateFromExecution(m.semantic, task.agent_type,
                                                        outcome = "success", t, day)]

\* the id complete_task returns (NoId for None)
CompleteTaskId(m) == CurrentId(m)

(***************************************************************************)
(* memory/lifecycle_controller.py                                          *)
(***************************************************************************)
\* floor(10^6 * exp(-d / 7)) for d = 0, 1, 2, ... days
ExpTable ==
    << 1000000, 866877, 751477, 651439, 564718, 489541, 424372, 367879, 318906,
       276453, 239651, 207748, 180092, 156118, 135335, 117319, 101701, 88162,
       76426, 66252, 57432, 49787, 43159, 37413, 32433, 28115, 24372, 21128,
       18315, 15877, 13763, 11931, 10343, 8966, 7772, 6737, 5840, 5063, 4389,
       3805, 3298, 2859, 2478, 2148, 1862, 1614, 1399, 1213, 1051, 911, 790,
       685, 594, 514, 446, 386, 335, 290, 252, 218, 189, 164, 142, 123, 106,
       92, 80, 69, 60, 52, 45 >>

\* recency_score = math.exp(-days_since_access / 7), in units of 10^-6
RecencyScore(days) ==
    IF days + 1 <= Len(ExpTable) THEN ExpTable[days + 1] ELSE 0

\* frequency_score = min(access_count / 10.0, 1.0), in units of 10^-6
FrequencyScore(count) ==
    IF count * 100000 < 1000000 THEN count * 100000 ELSE 1000000

\* _calculate_relevance: 0.5 without a current task or without an embedding,
\* else the cosine similarity sim of the entry to the current task
CalculateRelevance(m, entry, sim) ==
    IF ~HasCurrent(m) THEN 500000
    ELSE IF entry.embedding # None THEN sim ELSE 500000

\* calculate_lifecycle_score, in units of 10^-7, clamped to [0, 1]
CalculateLifecycleScore(m, entry, success, sim, day) ==
    LET score == 3 * RecencyScore(day - entry.last_accessed)
               + 2 * FrequencyScore(entry.access_count)
               + 3 * CalculateRelevance(m, entry, sim)
               + 2 * success
    IN  IF score < 0 THEN 0 ELSE IF score > 10000000 THEN 10000000 ELSE score

\* THRESHOLDS, in units of 10^-7
ThresholdWorking == 7000000
ThresholdEpisodic == 4000000
ThresholdSemantic == 2000000

\* score_to_tier
ScoreToTier(score) ==
    IF score >= ThresholdWorking THEN "working"
    ELSE IF score >= ThresholdEpisodic THEN "episodic"
    ELSE IF score >= ThresholdSemantic THEN "semantic"
    ELSE "archive"

\* MemoryTier values compare as Python strings
TierRank(tier) ==
    CASE tier = "archive" -> 1 [] tier = "episodic" -> 2
      [] tier = "semantic" -> 3 [] tier = "working" -> 4

\* the last 10 entries of a list
Last10(seq) ==
    IF Len(seq) <= 10 THEN seq ELSE SubSeq(seq, Len(seq) - 9, Len(seq))

\* _distill_to_pattern
DistillToPattern(m, row, day) ==
    LET sem == UpdateFromExecution(m.semantic, row.agent_type,
                                   row.outcome = "success",
                                   row.execution_time_ms, day)
        cap == sem[row.agent_type]
        pattern == row.refined_task
    IN  IF row.outcome = "success"
             /\ \A i \in 1..Len(cap.task_patterns) : cap.task_patterns[i] # pattern
        THEN [m EXCEPT !.semantic =
                [sem EXCEPT ![row.agent_type].task_patterns =
                                Last10(Append(@, pattern))]]
        ELSE [m EXCEPT !.semantic = sem]

\* json.dumps of a snapshot field (a str, or None for null) and json.loads of it
SnapshotDumps(v) ==
    IF v = None THEN [json |-> "null", s |-> ""] ELSE [json |-> "string", s |-> v]
SnapshotLoads(j) == IF j.json = "null" THEN None ELSE j.s

\* zlib.compress and zlib.decompress of the encoded JSON text
ZlibCompress(data) == [zlib |-> data]
ZlibDecompress(blob) == blob.zlib

\* the row _archive inserts: json.dumps({...}).encode(), compressed
ArchiveRow(row) ==
    [ original_table |-> "episodic_memories",
      compressed_data |-> ZlibCompress(
          [ raw_task |-> SnapshotDumps(row.raw_task),
            refined_task |-> SnapshotDumps(row.refined_task),
            agent_type |-> SnapshotDumps(row.agent_type),
            outcome |-> SnapshotDumps(row.outcome),
            result_summary |-> SnapshotDumps(row.result_summary) ]) ]

\* json.loads(zlib.decompress(compressed_data)) of an archive row
Snapshot(arow) ==
    LET data == ZlibDecompress(arow.compressed_data)
    IN  [f \in DOMAIN data |-> SnapshotLoads(data[f])]

\* _archive inserting the snapshot without deleting the live row
ArchiveKeepsLiveRow(m, row) ==
    [m EXCEPT !.archived =
                [i \in DOMAIN m.archived \cup {row.id} |->
                    IF i = row.id THEN ArchiveRow(row) ELSE m.archived[i]]]

\* _archive: in one transaction the snapshot goes to archived_memories
\* (INSERT OR REPLACE by id) and the live row is deleted
Archive(m, row) ==
    [m EXCEPT !.archived =
                [i \in DOMAIN m.archived \cup {row.id} |->
                    IF i = row.id THEN ArchiveRow(row) ELSE m.archived[i]],
              !.episodic = EpisodicDelete(m.episodic, row.id)]

\* _transition
Transition(m, row, target, day) ==
    IF target = "semantic" THEN DistillToPattern(m, row, day)
    ELSE IF target = "archive" THEN Archive(m, row)
    ELSE IF TierRank(target) < TierRank(row.current_tier)
    THEN [m EXCEPT !.episodic =
                     EpisodicStore(m.episodic, [row EXCEPT !.current_tier = target])]
    ELSE m

\* the episodic loop of run_lifecycle_pass over the rows get_all() returned
RECURSIVE LifecycleEpisodic(_, _, _, _, _)
LifecycleEpisodic(m, rows, ids, sim, day) ==
    IF ids = {} THEN m
    ELSE LET id == CHOOSE i \in ids : \A j \in ids : i <= j
             row == rows[id]
             target == ScoreToTier(
                 CalculateLifecycleScore(m, row, TaskSuccessRate(row), sim[id], day))
             next == IF target # row.current_tier
                     THEN Transition(m, row, target, day) ELSE m
         IN  LifecycleEpisodic(next, rows, ids \ {id}, sim, day)

\* AgentCapability.success_rate, in units of 10^-6 (rounded down)
CapSuccessRate(cap) ==
    IF cap.total_executions = 0 THEN 0
    ELSE (cap.successful_executions * 1000000) \div cap.total_executions

\* the semantic loop of run_lifecycle_pass: a cold row with a success rate
\* below 0.5 is deleted, any other row is left as it is
LifecycleSemantic(m, sim, day) ==
    LET cold == { a \in DOMAIN m.semantic :
                    /\ CalculateLifecycleScore(m, m.semantic[a],
                                               CapSuccessRate(m.semantic[a]),
                                               sim[a], day) < ThresholdSemantic
                    /\ 2 * m.semantic[a].successful_executions
                         < m.semantic[a].total_executions }
    IN  [m EXCEPT !.semantic = [a \in DOMAIN m.semantic \ cold |-> m.semantic[a]]]

\* run_lifecycle_pass; simE and simS give each row's similarity to the current task
RunLifecyclePass(m, simE, simS, day) ==
    LifecycleSemantic(
        LifecycleEpisodic(m, m.episodic, DOMAIN m.episodic, simE, day), simS, day)

\* run_lifecycle_pass when the _archive of row bad raises inside its
\* transaction: the rows before it are done, the transaction is rolled back and
\* the exception leaves the pass
RunLifecyclePassRaising(m, bad, simE, day) ==
    LifecycleEpisodic(m, m.episodic, {i \in DOMAIN m.episodic : i < bad}, simE, day)

\* MemoryManager.consolidate: a pending current task is completed as partial,
\* then a lifecycle pass runs
Consolidate(m, simE, simS, day) ==
    LET done == IF HasCurrent(m) /\ Current(m).outcome = "pending"
                THEN CompleteTask(m, "partial", "Session ended", 0, NoImage, None, day)
                ELSE m
    IN  RunLifecyclePass(done, simE, simS, day)

(***************************************************************************)
(* builder/controller.py, compiler.py, dockerizer.py, generator.py         *)
(***************************************************************************)
\* the task the orchestrator is given
TaskTexts == {"calculate fibonacci 10"}
\* what the refine LLM call may return for it
RefinedTexts == {"calculate the 10th fibonacci number",
                 "what is the 10th fibonacci number"}
\* the sources an LLM call may return; the stripped response may be empty
Sources == {"main_a.go", "main_b.go"}
EmptySource == ""
LlmSources == Sources \cup {EmptySource}
\* the error texts the compiler may write to stderr
ErrTexts == {"E1"}
\* exit codes of the verify run and of the agent run
VerifyCodes == {0, 1, 126, 127, 139}
\* what the verify run may have written to stdout
Stdouts == {"", "ok", "Segmentation fault"}
ExecCodes == {0, 1}
\* the milliseconds a build or an agent run takes
ElapsedMs == {3}

\* classify_task on the refined texts: "what is" is a research keyword and the
\* research group is looked at first; "calculate" is a compute keyword
ClassifyTask(text) ==
    CASE text = "what is the 10th fibonacci number" -> "research_agent"
      [] text = "calculate the 10th fibonacci number" -> "compute_agent"
      [] text = "calculate fibonacci 10" -> "compute_agent"
      [] OTHER -> "synthesis_agent"

\* agent_type.replace("_agent", "")
TypeShort(atype) ==
    CASE atype = "research_agent" -> "research"
      [] atype = "compute_agent" -> "compute"
      [] atype = "data_agent" -> "data"
      [] atype = "code_agent" -> "code"
      [] atype = "synthesis_agent" -> "synthesis"
      [] OTHER -> atype

\* max_retries = 2
MaxRetries == 2

\* a phase-1 loop that allows one attempt more
Phase1RetryExtra(attempt) == attempt <= MaxRetries + 1

\* the phase-1 loop goes on: attempt <= max_retries
Phase1Retry(attempt) == attempt <= MaxRetries

\* a phase-2 loop that allows one more attempt
Phase2RetryExtra(attempt) == attempt <= MaxRetries + 1

\* a phase-2 loop that stops one attempt early
Phase2RetryShort(attempt) == attempt < MaxRetries

\* the phase-2 loop goes on: attempt_p2 <= max_retries
Phase2Retry(attempt) == attempt <= MaxRetries

\* no exception
NoError == [kind |-> "none", stderr |-> "", msg |-> ""]

\* what compile_in_docker raises: CalledProcessError of the tinygo run, whose
\* stderr holds the compiler's error text, or the missing-binary Exception
CompileErrors ==
    { [kind |-> "CalledProcessError", stderr |-> e,
       msg |-> "Command '['docker', 'run', ...]' returned non-zero exit status 1."]
        : e \in ErrTexts }
    \cup { [kind |-> "Exception", stderr |-> "",
            msg |-> "Binary created but not found on host?"] }

\* what build_and_push raises: CalledProcessError of docker build or docker push
BuildError ==
    [kind |-> "CalledProcessError", stderr |-> "push failed",
     msg |-> "Command '['docker', 'push', ...]' returned non-zero exit status 1."]

\* what verify_image raises for an exit code
VerifyError(rc) ==
    [kind |-> "Exception", stderr |-> "",
     msg |-> IF rc = 139 THEN "SIGSEGV (139) detected during verification"
             ELSE "Command execution error - possibly arch mismatch"]

\* what refine_task raises when the LLM call has failed: _call_llm returns what
\* _mock_generator("fix_code_fallback") returns, None, and .strip() is called on it
RefineError ==
    [kind |-> "AttributeError", stderr |-> "",
     msg |-> "'NoneType' object has no attribute 'strip'"]

\* str(e): the exception's message; CalledProcessError.__str__ names the command
\* and the exit status and leaves stderr out
Str(e) == e.msg

\* the texts put into the prompt of CodeGenerator.fix_code(faulty_code, error_log)
FixPrompt(faulty_code, error_log) == {faulty_code, error_log}

\* the binary compile_in_docker reads back for a source
BinaryOf(source) == [elf |-> source]
NoBinary == [elf |-> ""]

\* agent_name = f"helix-{type_short}-agent-{int(time.time())}", split at "-"
AgentName(atype, time) ==
    [prefix |-> "helix", class |-> TypeShort(atype), infix |-> <<"agent">>,
     suffix |-> time]

\* the metadata dict create_agent passes to build_and_push
Metadata(refined, atype, time) ==
    [k \in {"task", "capabilities", "helix.task", "helix.created",
            "helix.capabilities", "helix.author", "helix.type"} |->
        CASE k = "task" -> refined
          [] k = "helix.task" -> refined
          [] k = "capabilities" -> <<atype, "net-enabled">>
          [] k = "helix.capabilities" -> <<atype, "net-enabled">>
          [] k = "helix.created" -> <<"created", time>>
          [] k = "helix.author" -> "gemini-2.5-flash"
          [] k = "helix.type" -> atype]

\* the LABEL lines of the Dockerfile build_and_push writes
DockerfileLabels(metadata) ==
    [k \in {"helix.task", "helix.capabilities"} |->
        IF k = "helix.task" THEN metadata["task"] ELSE metadata["capabilities"]]

\* docker build + docker push of <registry>/<image_name>:latest
BuildAndPush(reg, binary, name, metadata) ==
    [n \in DOMAIN reg \cup {name} |->
        IF n = name
        THEN [labels |-> DockerfileLabels(metadata), binary |-> binary]
        ELSE reg[n]]

\* a verification that only looks for the segfault code
VerifyImageSegvOnly(rc, stdout) == rc # 139

\* verify_image: TRUE when the run's exit code passes, FALSE when it raises
VerifyImage(rc, stdout) == ~(rc = 139 \/ rc = 126 \/ rc = 127)

\* the rows a recall(query, tier, limit) may return: the limit most similar of
\* the rows that have an embedding, whichever they are
TopSimilar(epi, limit) ==
    LET scored == { i \in DOMAIN epi : epi[i].embedding # None }
    IN  { S \in SUBSET scored :
            Cardinality(S) = IF Cardinality(scored) < limit
                             THEN Cardinality(scored) ELSE limit }

\* recall_similar touches every row it returns
RECURSIVE TouchAll(_, _, _)
TouchAll(epi, S, day) ==
    IF S = {} THEN epi
    ELSE LET id == CHOOSE i \in S : TRUE
         IN  TouchAll(EpisodicTouch(epi, id, day), S \ {id}, day)

\* format_for_prompt returns a non-empty context: a similar successful task, a
\* known pattern of one of the recalled classes, or the class's capability row
ContextNonEmpty(m, S, P, atype) ==
    \/ \E id \in S : m.episodic[id].outcome = "success"
    \/ \E a \in P : m.semantic[a].task_patterns # << >>
    \/ atype \in DOMAIN m.semantic

\* the recalls of create_agent: format_context_for_prompt recalls the 3 most
\* similar rows S, and the log line recalls them again when there is a context
RecallContext(m, S, P, atype, day) ==
    LET once == [m EXCEPT !.episodic = TouchAll(@, S, day)]
    IN  IF ContextNonEmpty(m, S, P, atype)
        THEN [once EXCEPT !.episodic = TouchAll(@, S, day)]
        ELSE once

\* the exit codes a container run can have
MaxExitCode == 255
ExitCodes == 0..MaxExitCode

\* no verify_image call under observation
NoProbe == [rc |-> 0, stdout |-> "", result |-> "idle"]

\* create_agent before any step
NewCtl ==
    [ refined_task |-> "", agent_type |-> "", attempt |-> 0, current_code |-> "",
      binary_data |-> NoBinary, attempt_p2 |-> 0, image_tag |-> NoImage,
      err |-> NoError ]

\* handle_complex_task before any call
IdleRun ==
    [ pc |-> "idle", task_spec |-> "", agent_image |-> NoImage,
      agent_source |-> "new", count |-> 0 ]

\* nothing observed yet of a handle_complex_task call
NewTrace ==
    [ compiles |-> 0, compileFails |-> 0, fixes |-> 0, packages |-> 0,
      pkgFails |-> 0, verifies |-> 0, allSegv |-> TRUE, binaries |-> {},
      fixGot |-> "none", fixRet |-> "", afterFix |-> "none", execRc |-> 0,
      finalId |-> NoId, result |-> "none", topHit |-> FALSE,
      topImage |-> NoImage, found |-> NoImage, raised |-> "", execs |-> 0 ]

(***************************************************************************)
(* builder/search_tool.py                                                  *)
(***************************************************************************)
\* the words of a text that are longer than 2 characters and no stop words
Keywords(text) ==
    CASE text = "calculate fibonacci 10" -> {"calculate", "fibonacci"}
      [] text = "calculate the 10th fibonacci number" ->
            {"calculate", "10th", "fibonacci", "number"}
      [] text = "what is the 10th fibonacci number" ->
            {"what", "10th", "fibonacci", "number"}
      [] OTHER -> {}

\* the class names (research, compute, data, code, synthesis) a text contains;
\* none of the task texts contains one
ClassWords(text) ==
    CASE text \in TaskTexts -> {}
      [] OTHER -> {}

\* the catalog lists repositories in lexical order
ClassOrder(class) ==
    CASE class = "code" -> 1 [] class = "compute" -> 2 [] class = "data" -> 3
      [] class = "research" -> 4 [] class = "synthesis" -> 5 [] OTHER -> 6

Before(a, b) ==
    \/ ClassOrder(a.class) < ClassOrder(b.class)
    \/ ClassOrder(a.class) = ClassOrder(b.class) /\ a.suffix < b.suffix

\* the score of a catalog entry in thousandths: keyword overlap, +0.3 when the
\* task names the agent's class, +0.5 for a helix- name
SearchScore(task, name, labels) ==
    LET tk == Keywords(task)
        ak == Keywords(labels["helix.task"])
    IN  (Cardinality(tk \cap ak) * 1000) \div Cardinality(tk \cup ak)
        + (IF name.class \in ClassWords(task) THEN 300 ELSE 0)
        + (IF name.prefix = "helix" THEN 500 ELSE 0)

\* the entries search scores: a helix.task label and keywords on both sides
Candidates(reg, task) ==
    { n \in DOMAIN reg :
        /\ "helix.task" \in DOMAIN reg[n].labels
        /\ Keywords(reg[n].labels["helix.task"]) # {}
        /\ Keywords(task) # {} }

\* AgentSearchTool.search when the catalog can be read: the first entry of the
\* highest score, when that score is at least 0.2
Search(reg, task) ==
    LET c == Candidates(reg, task)
        sc(n) == SearchScore(task, n, reg[n].labels)
        best == CHOOSE n \in c :
                    \A o \in c \ {n} :
                        sc(n) > sc(o) \/ (sc(n) = sc(o) /\ Before(n, o))
    IN  IF c = {} THEN NoImage
        ELSE IF sc(best) >= 200 THEN best ELSE NoImage

(***************************************************************************)
(* builder/wasm_registry.py: the stemmer.  A word is the sequence of its   *)
(* characters.                                                             *)
(***************************************************************************)
\* the longest word looked at
MaxWordLen == 5

\* the letters the words looked at are made of (lower case, so that
\* word.lower() leaves them as they are)
Letters == {"a", "e", "r", "s", "t"}

\* every word of 1 .. n letters
WordsUpTo(n) == UNION { [1..k -> Letters] : k \in 1..n }

\* compound_suffixes: each suffix with the length that must remain, in the
\* order the loop tries them
CompoundSuffixes ==
    <<
       [suffix |-> <<"i", "c", "a", "t", "i", "o", "n", "s">>, min_remain |-> 5],
       [suffix |-> <<"a", "t", "i", "o", "n", "a", "l">>, min_remain |-> 5],
       [suffix |-> <<"a", "t", "i", "o", "n", "s">>, min_remain |-> 5],
       [suffix |-> <<"a", "t", "i", "n", "g">>, min_remain |-> 5],
       [suffix |-> <<"u", "t", "i", "n", "g">>, min_remain |-> 5],
       [suffix |-> <<"i", "z", "i", "n", "g">>, min_remain |-> 5],
       [suffix |-> <<"i", "s", "i", "n", "g">>, min_remain |-> 5],
       [suffix |-> <<"i", "t", "i", "o", "n">>, min_remain |-> 5],
       [suffix |-> <<"a", "t", "i", "o", "n">>, min_remain |-> 5],
       [suffix |-> <<"m", "e", "n", "t">>, min_remain |-> 4],
       [suffix |-> <<"n", "e", "s", "s">>, min_remain |-> 4],
       [suffix |-> <<"a", "b", "l", "e">>, min_remain |-> 4],
       [suffix |-> <<"i", "b", "l", "e">>, min_remain |-> 4],
       [suffix |-> <<"i", "c", "a", "l">>, min_remain |-> 4],
       [suffix |-> <<"a", "l", "l", "y">>, min_remain |-> 4],
       [suffix |-> <<"t", "i", "n", "g">>, min_remain |-> 4],
       [suffix |-> <<"i", "v", "e">>, min_remain |-> 3],
       [suffix |-> <<"f", "u", "l">>, min_remain |-> 3],
       [suffix |-> <<"o", "u", "s">>, min_remain |-> 3],
       [suffix |-> <<"i", "z", "e">>, min_remain |-> 3],
       [suffix |-> <<"i", "s", "e">>, min_remain |-> 3],
       [suffix |-> <<"a", "t", "e">>, min_remain |-> 3],
       [suffix |-> <<"i", "n", "g">>, min_remain |-> 3],
       [suffix |-> <<"i", "o", "n">>, min_remain |-> 3],
       [suffix |-> <<"e", "d">>, min_remain |-> 2],
       [suffix |-> <<"e", "r">>, min_remain |-> 2],
       [suffix |-> <<"l", "y">>, min_remain |-> 2],
       [suffix |-> <<"a", "l">>, min_remain |-> 2],
       [suffix |-> <<"s">>, min_remain |-> 2]
    >>

\* word.endswith(suffix)
EndsWith(word, suffix) ==
    /\ Len(word) >= Len(suffix)
    /\ SubSeq(word, Len(word) - Len(suffix) + 1, Len(word)) = suffix

\* WASMRegistry._stem: strip the first suffix that fits and leaves enough,
\* then a trailing "e" of a word longer than 4
Stem(word) ==
    LET fits == { i \in 1..Len(CompoundSuffixes) :
                    /\ EndsWith(word, CompoundSuffixes[i].suffix)
                    /\ Len(word) - Len(CompoundSuffixes[i].suffix)
                           >= CompoundSuffixes[i].min_remain }
        first == CHOOSE i \in fits : \A j \in fits : i <= j
        stripped == IF fits = {} THEN word
                    ELSE SubSeq(word, 1,
                                Len(word) - Len(CompoundSuffixes[first].suffix))
    IN  IF EndsWith(stripped, <<"e">>) /\ Len(stripped) > 4
        THEN SubSeq(stripped, 1, Len(stripped) - 1)
        ELSE stripped

(***************************************************************************)
(* builder/wasm_registry.py: the registry directory.  An agent is a        *)
(* directory of files; a file is whole once its writer has closed it.      *)
(***************************************************************************)
\* the most store calls made
MaxStores == 2

\* words of the task texts, and the texts (a text is the sequence of its words)
WordCalculate == <<"c", "a", "l", "c", "u", "l", "a", "t", "e">>
WordCalculating == <<"c", "a", "l", "c", "u", "l", "a", "t", "i", "n", "g">>
WordSum == <<"s", "u", "m">>
WordSums == <<"s", "u", "m", "s">>
WordWith == <<"w", "i", "t", "h">>
WordTotal == <<"t", "o", "t", "a", "l">>
TextCalculateSums == <<WordCalculate, WordSums>>
TextCalculatingSum == <<WordCalculating, WordSum>>
TextSumWithTotal == <<WordSum, WordWith, WordTotal>>
NoText == << >>

\* the inputs of store
WasmNames == {"adder"}
WasmBinaries == {"wasm_1", "wasm_2"}
WasmFiles == {"agent.wasm", "custom.wasm"}

\* WASMManifest(name, task, wasm_file=...)
WASMManifest(name, task, wasm_file) ==
    [name |-> name, task |-> task, runtime |-> "wasm", capabilities |-> << >>,
     wasm_file |-> wasm_file]
NoManifest == WASMManifest("", NoText, "")
Manifests(name) ==
    { WASMManifest(name, task, f) :
        task \in {TextCalculateSums, TextCalculatingSum}, f \in WasmFiles }

\* a file just opened for writing (created or truncated), and a file written
\* and closed; by is the store call that wrote it
OpenedFile(id) ==
    [bytes |-> "", manifest |-> NoManifest, whole |-> FALSE, by |-> id]
BinaryFile(binary, id) ==
    [bytes |-> binary, manifest |-> NoManifest, whole |-> TRUE, by |-> id]
ManifestFile(manifest, id) ==
    [bytes |-> "", manifest |-> manifest, whole |-> TRUE, by |-> id]

\* path.exists()
Exists(dir, name, file) == name \in DOMAIN dir /\ file \in DOMAIN dir[name]

\* writing a file of an agent directory
WriteFile(dir, name, file, content) ==
    [dir EXCEPT ![name] = [f \in DOMAIN dir[name] \cup {file} |->
                              IF f = file THEN content ELSE dir[name][f]]]

\* agent_dir.mkdir(parents=True, exist_ok=True)
Mkdir(dir, name) ==
    IF name \in DOMAIN dir THEN dir
    ELSE [n \in DOMAIN dir \cup {name} |-> IF n = name THEN EmptyMap ELSE dir[n]]

\* WASMRegistry.list_agents: the directories that hold manifest.json and
\* agent.wasm
ListAgents(dir) ==
    { n \in DOMAIN dir :
        Exists(dir, n, "manifest.json") /\ Exists(dir, n, "agent.wasm") }

\* json.load of manifest.json succeeds
Readable(dir, name) ==
    Exists(dir, name, "manifest.json") /\ dir[name]["manifest.json"].whole

\* WASMRegistry.get_manifest: None (NoManifest) when the file is missing or
\* does not parse
GetManifest(dir, name) ==
    IF Readable(dir, name) THEN dir[name]["manifest.json"].manifest
    ELSE NoManifest

\* WASMRegistry.get_agent_metadata: {} (no task) when the file is missing or
\* does not parse
GetAgentTask(dir, name) ==
    IF Readable(dir, name) THEN dir[name]["manifest.json"].manifest.task
    ELSE NoText

\* WASMRegistry.get_wasm_path: the manifest's wasm_file when it exists
GetWasmPath(dir, name) ==
    LET manifest == GetManifest(dir, name)
    IN  IF manifest # NoManifest /\ Exists(dir, name, manifest.wasm_file)
        THEN manifest.wasm_file ELSE ""

\* WASMRegistry.get_wasm_binary: the bytes of that file, None when no path
GetWasmBinary(dir, name) ==
    LET path == GetWasmPath(dir, name)
    IN  IF path = "" THEN [found |-> FALSE, bytes |-> ""]
        ELSE [found |-> TRUE, bytes |-> dir[name][path].bytes]

\* no store call is running; nothing was read
NoStore == [pc |-> "none", name |-> "", binary |-> "", manifest |-> NoManifest,
            id |-> 0]
NoSeen == [op |-> "none", during |-> "none", name |-> "", dir |-> EmptyMap,
           listed |-> {}, got |-> [found |-> FALSE, bytes |-> ""],
           task |-> NoText]

\* an empty registry directory
NewWasm ==
    [state |-> "ready", dir |-> EmptyMap, call |-> NoStore, seen |-> NoSeen,
     last |-> EmptyMap, stores |-> 0]

(***************************************************************************)
(* builder/unified_registry.py: one search over the K8s catalog and the    *)
(* WASM registry.  Texts are lower case, so that lower() leaves them as    *)
(* they are.  Scores are counted in sixtieths, which is exact for keyword  *)
(* sets of up to six words together.                                       *)
(***************************************************************************)
\* 1.0 in sixtieths
One == 60
\* 0.3 for a type word, 0.5 for a helix- name, the threshold 0.2 and the
\* margin 0.1 of _pick_best
TypeBonus == 18
HelixBonus == 30
Threshold == 12
Margin == 6

WordData == <<"d", "a", "t", "a">>
WordSumComma == <<"s", "u", "m", ",">>
TextSumData == <<WordSum, WordData>>
TextSumCommaTotal == <<WordSumComma, WordTotal>>

\* the task descriptions searched for, and the tasks agents are stored with
UniQueries == {TextCalculatingSum, TextSumData, TextSumCommaTotal}
K8sTasks == {TextSumData, TextSumWithTotal, NoText}
UniWasmTasks == {TextCalculateSums, TextSumWithTotal}

\* the agent names, their characters, and the order of the catalog
K8sNames == {"helix-data-1", "sum-tool"}
UniWasmNames == {"adder", "data-adder"}
Chars(name) ==
    CASE name = "helix-data-1" ->
            <<"h", "e", "l", "i", "x", "-", "d", "a", "t", "a", "-", "1">>
      [] name = "sum-tool" -> <<"s", "u", "m", "-", "t", "o", "o", "l">>
      [] name = "adder" -> <<"a", "d", "d", "e", "r">>
      [] name = "data-adder" ->
            <<"d", "a", "t", "a", "-", "a", "d", "d", "e", "r">>
      [] OTHER -> << >>
CatalogOrder(name) == IF name = "helix-data-1" THEN 1 ELSE 2

\* stop_words of _search_k8s and _search_wasm, and of WASMRegistry.search
K8sStopWords ==
    { <<"t", "h", "e">>, <<"a">>, <<"a", "n">>, <<"o", "f">>, <<"t", "o">>,
      <<"f", "o", "r">>, <<"a", "n", "d">>, <<"o", "r">>, <<"i", "n">>,
      <<"o", "n">>, <<"a", "t">>, <<"i", "s">>, <<"i", "t">>, <<"b", "e">>,
      <<"a", "s">> }
WasmStopWords == K8sStopWords \cup {WordWith}

\* the type words of _search_k8s, and of WASMRegistry.search
K8sTypeWords ==
    << <<"r", "e", "s", "e", "a", "r", "c", "h">>,
       <<"c", "o", "m", "p", "u", "t", "e">>,
       <<"d", "a", "t", "a">>,
       <<"c", "o", "d", "e">>,
       <<"s", "y", "n", "t", "h", "e", "s", "i", "s">> >>
WasmTypeWords ==
    K8sTypeWords \o << <<"m", "a", "t", "h">>, <<"t", "e", "x", "t">> >>

\* kw in s, s.startswith(p), and kw in a text (a type word holds no blank, so
\* it lies in one word of the text)
Contains(s, kw) ==
    \E i \in 1..(Len(s) - Len(kw) + 1) : SubSeq(s, i, i + Len(kw) - 1) = kw
StartsWith(s, p) == Len(s) >= Len(p) /\ SubSeq(s, 1, Len(p)) = p
TextContains(text, kw) == \E i \in 1..Len(text) : Contains(text[i], kw)

\* the words of a text that are no stop words and longer than 2
PlainKeywords(text, stop_words) ==
    { text[i] : i \in { j \in 1..Len(text) :
                          text[j] \notin stop_words /\ Len(text[j]) > 2 } }

\* ''.join(c for c in word if c.isalnum())
IsAlnum(c) == c \notin {",", ".", "-"}
Clean(word) == SelectSeq(word, IsAlnum)

\* WASMRegistry._extract_stemmed_keywords
ExtractStemmedKeywords(text, stop_words) ==
    { Stem(Clean(text[i])) :
        i \in { j \in 1..Len(text) :
                  Clean(text[j]) \notin stop_words /\ Len(Clean(text[j])) > 2 } }

\* len(intersection) / len(union)
Jaccard(a, b) == (One * Cardinality(a \cap b)) \div Cardinality(a \cup b)

\* the bonus of the first type word that the task and the agent name hold
TypeMatch(task, name, type_words) ==
    IF \E i \in 1..Len(type_words) :
          TextContains(task, type_words[i]) /\ Contains(Chars(name), type_words[i])
    THEN TypeBonus ELSE 0

\* AgentMatch(name, runtime, score, task), and no match (None)
AgentMatch(name, runtime, score, task) ==
    [name |-> name, runtime |-> runtime, score |-> score, task |-> task]
NoMatch == AgentMatch("", "none", 0, NoText)

\* the requests of one search that fail: the catalog request of list_agents,
\* or the manifest or blob requests of get_agent_metadata for some agents
NoFailure == [list |-> FALSE, unread |-> {}]
Failures(names) ==
    {[list |-> TRUE, unread |-> {}]}
        \cup {[list |-> FALSE, unread |-> S] : S \in SUBSET names}

\* what _search_k8s reads when list_agents lets the exception of the catalog
\* request through: nothing is caught, and the search ends with it
K8sReadRaising(catalog, failure) ==
    IF failure.list THEN [raised |-> TRUE, catalog |-> EmptyMap]
    ELSE [raised |-> FALSE,
          catalog |-> [a \in DOMAIN catalog |->
                         IF a \in failure.unread THEN NoText ELSE catalog[a]]]

\* what _search_k8s reads: list_agents returns [] when its request fails, and
\* get_agent_metadata returns {} (no helix.task label) when one of its fails
K8sRead(catalog, failure) ==
    [raised |-> FALSE,
     catalog |-> [a \in (IF failure.list THEN {} ELSE DOMAIN catalog) |->
                    IF a \in failure.unread THEN NoText ELSE catalog[a]]]

\* the score _search_k8s gives an agent of the catalog
K8sScore(catalog, task, agent) ==
    Jaccard(PlainKeywords(task, K8sStopWords),
            PlainKeywords(catalog[agent], K8sStopWords))
    + TypeMatch(task, agent, K8sTypeWords)
    + (IF StartsWith(Chars(agent), <<"h", "e", "l", "i", "x", "-">>)
       THEN HelixBonus ELSE 0)

\* UnifiedAgentRegistry._search_k8s: the first agent of the highest score,
\* when that score is at least 0.2
SearchK8s(catalog, task) ==
    LET scored == { a \in DOMAIN catalog :
                      /\ catalog[a] # NoText
                      /\ PlainKeywords(catalog[a], K8sStopWords) # {}
                      /\ PlainKeywords(task, K8sStopWords) # {} }
        score == [a \in scored |-> K8sScore(catalog, task, a)]
        c == { a \in scored : score[a] > 0 }
        best == CHOOSE a \in c :
                    \A o \in c \ {a} :
                        \/ score[a] > score[o]
                        \/ score[a] = score[o] /\ CatalogOrder(a) < CatalogOrder(o)
    IN  IF c = {} THEN NoMatch
        ELSE IF score[best] >= Threshold
             THEN AgentMatch(best, "k8s", score[best], catalog[best])
             ELSE NoMatch

\* the score WASMRegistry.search gives a listed agent
WasmScore(dir, task, agent) ==
    Jaccard(ExtractStemmedKeywords(task, WasmStopWords),
            ExtractStemmedKeywords(GetAgentTask(dir, agent), WasmStopWords))
    + TypeMatch(task, agent, WasmTypeWords)

\* WASMRegistry.search: the names it can return ("" for None).  iterdir()
\* yields the directories in no fixed order, so any agent of the highest
\* score may be the first one met.
WasmSearch(dir, task) ==
    LET scored == { a \in ListAgents(dir) :
                      /\ GetAgentTask(dir, a) # NoText
                      /\ ExtractStemmedKeywords(GetAgentTask(dir, a),
                                                WasmStopWords) # {}
                      /\ ExtractStemmedKeywords(task, WasmStopWords) # {} }
        score == [a \in scored |-> WasmScore(dir, task, a)]
        c == { a \in scored : score[a] > 0 }
        top == { a \in c : \A o \in c : score[a] >= score[o] }
    IN  IF c = {} THEN {""}
        ELSE IF \E a \in top : score[a] >= Threshold THEN top
             ELSE {""}

\* UnifiedAgentRegistry._search_wasm, agent_name being what
\* wasm_registry.search returned: the score is computed again, from the
\* unstemmed keywords and without the type bonus
SearchWasm(dir, task, agent_name) ==
    LET task_keywords == PlainKeywords(task, K8sStopWords)
        agent_task == GetAgentTask(dir, agent_name)
        agent_keywords == PlainKeywords(agent_task, K8sStopWords)
        score == IF agent_keywords # {} /\ task_keywords # {}
                 THEN Jaccard(task_keywords, agent_keywords)
                 ELSE Threshold
    IN  IF agent_name = "" THEN NoMatch
        ELSE AgentMatch(agent_name, "wasm", score, agent_task)

\* _pick_best with K8s preferred when the scores are close
PickBestK8sWhenClose(k8s_match, wasm_match) ==
    LET score_diff == k8s_match.score - wasm_match.score
    IN  IF score_diff > Margin THEN k8s_match
        ELSE IF score_diff < -Margin THEN wasm_match
        ELSE k8s_match

\* UnifiedAgentRegistry._pick_best
PickBest(k8s_match, wasm_match) ==
    LET score_diff == k8s_match.score - wasm_match.score
    IN  IF score_diff > Margin THEN k8s_match
        ELSE IF score_diff < -Margin THEN wasm_match
        ELSE wasm_match

\* UnifiedAgentRegistry.search, agent_name being what wasm_registry.search
\* returns when it is called: the two candidates and the match returned
UnifiedSearch(catalog, dir, task, runtime_filter, agent_name) ==
    LET k8s_match == IF runtime_filter # "wasm" THEN SearchK8s(catalog, task)
                     ELSE NoMatch
        wasm_match == IF runtime_filter # "k8s"
                      THEN SearchWasm(dir, task, agent_name)
                      ELSE NoMatch
    IN  [k8s |-> k8s_match, wasm |-> wasm_match,
         result |-> IF k8s_match = NoMatch /\ wasm_match = NoMatch THEN NoMatch
                    ELSE IF wasm_match = NoMatch THEN k8s_match
                    ELSE IF k8s_match = NoMatch THEN wasm_match
                    ELSE PickBest(k8s_match, wasm_match)]

\* UnifiedAgentRegistry.search over a container backend some of whose
\* requests fail: raised tells whether the call ended with an exception
UnifiedSearchOver(read, dir, task, runtime_filter, agent_name) ==
    IF read.raised /\ runtime_filter # "wasm"
    THEN [raised |-> TRUE, k8s |-> NoMatch, wasm |-> NoMatch, result |-> NoMatch]
    ELSE [raised |-> FALSE]
         @@ UnifiedSearch(read.catalog, dir, task, runtime_filter, agent_name)

\* nothing searched yet, and a unified registry over an empty catalog
NoSearch ==
    [task |-> NoText, runtime_filter |-> "none", failure |-> NoFailure,
     raised |-> FALSE, k8s |-> NoMatch, wasm |-> NoMatch, result |-> NoMatch]
NewUni == [state |-> "ready", catalog |-> EmptyMap, search |-> NoSearch]

(***************************************************************************)
(* memory/episodic.py: a task memory as a row of episodic_memories.  A     *)
(* Python value carries its type; a column value carries its SQL type.     *)
(***************************************************************************)
\* the most store calls made
MaxRecStores == 2

\* None, a str and an int
PyNone == [py |-> "None", s |-> "", n |-> 0]
PyStr(s) == [py |-> "str", s |-> s, n |-> 0]
PyInt(n) == [py |-> "int", s |-> "", n |-> n]
\* None where a list or a dict may stand, a list and a dict (its items in
\* insertion order)
PyNoItems == [py |-> "None", items |-> << >>]
PyList(items) == [py |-> "list", items |-> items]
PyDict(items) == [py |-> "dict", items |-> items]
\* "x if v else None": a list or a dict is true when it holds something
Truthy(v) == v.py # "None" /\ Len(v.items) > 0

\* NULL, and the column value sqlite3 binds a None, str or int to
SqlNull == [sql |-> "NULL", s |-> "", n |-> 0]
Bind(v) ==
    [sql |-> CASE v.py = "None" -> "NULL" [] v.py = "str" -> "TEXT"
               [] OTHER -> "INTEGER",
     s |-> v.s, n |-> v.n]
\* the Python value sqlite3 returns for a column
Fetch(col) ==
    [py |-> CASE col.sql = "NULL" -> "None" [] col.sql = "TEXT" -> "str"
              [] OTHER -> "int",
     s |-> col.s, n |-> col.n]

\* a column of JSON text: NULL, or the text json.dumps gives a list or a dict
JsonNull == [sql |-> "NULL", json |-> "", items |-> << >>]
JsonDumps(v) ==
    [sql |-> "TEXT", json |-> IF v.py = "dict" THEN "object" ELSE "array",
     items |-> v.items]
\* json.loads of such a text
JsonLoads(col) ==
    [py |-> IF col.json = "object" THEN "dict" ELSE "list", items |-> col.items]

\* datetime.isoformat() and datetime.fromisoformat(), a datetime being a day
IsoFormat(day) == [sql |-> "TEXT", s |-> "iso", n |-> day]
FromIsoFormat(col) == col.n

\* MemoryTier: the member of a value, and member.value
MemoryTier(value) == [tier |-> value.s]
TierValue(member) == PyStr(member.tier)

\* embeddings.embed(text): a list of floats, never empty
Embed == PyList(<<1, 2>>)

\* the task memories stored: the optional and list fields vary
RecIds == {"m1", "m2"}
RecTools == {PyList(<< >>), PyList(<<"curl">>)}
RecData == {PyNoItems, PyDict(<< >>), PyDict(<< <<"answer", 55>> >>)}
RecRatings == {PyNone, PyInt(5)}
RecEmbeddings == {PyNoItems, PyList(<< >>), PyList(<<3>>)}
RecMemory(id, tools_used, result_data, user_rating, embedding) ==
    [ id |-> PyStr(id), created_at |-> 0, last_accessed |-> 0,
      access_count |-> PyInt(0), current_tier |-> MemoryTier(PyStr("episodic")),
      raw_task |-> PyStr("add 2 and 3"), refined_task |-> PyStr("add 2 and 3"),
      task_type |-> PyStr(""), agent_type |-> PyStr("compute_agent"),
      agent_image |-> PyNone, tools_used |-> tools_used,
      outcome |-> PyStr("success"), execution_time_ms |-> PyInt(3),
      error_message |-> PyNone, result_summary |-> PyStr("5"),
      result_data |-> result_data, user_feedback |-> PyNone,
      user_rating |-> user_rating, embedding |-> embedding ]
RecMemories ==
    { RecMemory(id, tools_used, result_data, user_rating, embedding) :
        id \in RecIds, tools_used \in RecTools, result_data \in RecData,
        user_rating \in RecRatings, embedding \in RecEmbeddings }

\* EpisodicMemory.store: the memory with its embedding filled in
WithEmbedding(t) ==
    IF t.embedding.py = "None" THEN [t EXCEPT !.embedding = Embed]
    ELSE t

\* json.dumps(x) if x else None
DumpsIfTruthy(v) == IF Truthy(v) THEN JsonDumps(v) ELSE JsonNull

\* EpisodicMemory.store: the VALUES of the INSERT OR REPLACE
MemoryToRow(t) ==
    [ id |-> Bind(t.id),
      created_at |-> IsoFormat(t.created_at),
      last_accessed |-> IsoFormat(t.last_accessed),
      access_count |-> Bind(t.access_count),
      current_tier |-> Bind(TierValue(t.current_tier)),
      raw_task |-> Bind(t.raw_task),
      refined_task |-> Bind(t.refined_task),
      task_type |-> Bind(t.task_type),
      agent_type |-> Bind(t.agent_type),
      agent_image |-> Bind(t.agent_image),
      tools_used |-> JsonDumps(t.tools_used),
      outcome |-> Bind(t.outcome),
      execution_time_ms |-> Bind(t.execution_time_ms),
      error_message |-> Bind(t.error_message),
      result_summary |-> Bind(t.result_summary),
      result_data |-> DumpsIfTruthy(t.result_data),
      user_feedback |-> Bind(t.user_feedback),
      user_rating |-> Bind(t.user_rating),
      embedding |-> DumpsIfTruthy(t.embedding) ]

\* EpisodicMemory._row_to_memory
RowToMemory(row) ==
    [ id |-> Fetch(row.id),
      created_at |-> FromIsoFormat(row.created_at),
      last_accessed |-> FromIsoFormat(row.last_accessed),
      access_count |-> Fetch(row.access_count),
      current_tier |-> MemoryTier(Fetch(row.current_tier)),
      raw_task |-> Fetch(row.raw_task),
      refined_task |-> Fetch(row.refined_task),
      task_type |-> Fetch(row.task_type),
      agent_type |-> Fetch(row.agent_type),
      agent_image |-> Fetch(row.agent_image),
      tools_used |-> IF row.tools_used.sql # "NULL" THEN JsonLoads(row.tools_used)
                     ELSE PyList(<< >>),
      outcome |-> Fetch(row.outcome),
      execution_time_ms |-> Fetch(row.execution_time_ms),
      error_message |-> Fetch(row.error_message),
      result_summary |-> Fetch(row.result_summary),
      result_data |-> IF row.result_data.sql # "NULL"
                      THEN JsonLoads(row.result_data) ELSE PyNoItems,
      user_feedback |-> Fetch(row.user_feedback),
      user_rating |-> Fetch(row.user_rating),
      embedding |-> IF row.embedding.sql # "NULL" THEN JsonLoads(row.embedding)
                    ELSE PyNoItems ]

\* _touch: UPDATE ... SET last_accessed = now, access_count = access_count + 1
TouchRow(db, id, day) ==
    IF id \in DOMAIN db
    THEN [db EXCEPT ![id].last_accessed = IsoFormat(day),
                    ![id].access_count.n = @ + 1]
    ELSE db

\* nothing recalled (None), and an empty table
NoRecall == [found |-> FALSE, memory |-> RecMemory("", PyList(<< >>), PyNoItems,
                                                   PyNone, PyNoItems)]
NewRec ==
    [state |-> "ready", db |-> EmptyMap, stores |-> 0, day |-> 0,
     stored |-> NoRecall.memory, id |-> "", got |-> NoRecall]

(***************************************************************************)
(* builder/controller.py classify_task and builder/wasm_builder.py         *)
(* is_wasm_suitable.  A text is the sequence of its characters.            *)
(***************************************************************************)
\* the most phrases a task text is made of
MaxPhrases == 2

\* the phrases the task texts are made of, and the texts: up to MaxPhrases
\* phrases with a blank in between
Phrases ==
    { <<"W", "h", "a", "t", " ", "i", "s">>,
      <<"s", "u", "m">>,
      <<"p", "a", "r", "s", "e", " ", "j", "s", "o", "n">>,
      <<"p", "r", "o", "g", "r", "a", "m">>,
      <<"c", "o", "m", "p", "o", "s", "e">>,
      <<"h", "o", "w">>,
      <<"a", "p", "i">>,
      <<"t", "a", "s", "k">> }
RECURSIVE JoinPhrases(_)
JoinPhrases(ps) ==
    IF Len(ps) = 0 THEN << >>
    ELSE IF Len(ps) = 1 THEN ps[1]
    ELSE ps[1] \o <<" ">> \o JoinPhrases(Tail(ps))
PureTexts ==
    { JoinPhrases(ps) : ps \in UNION { [1..k -> Phrases] : k \in 1..MaxPhrases } }

\* str.lower() on the characters used
LowerChar(c) == CASE c = "W" -> "w" [] OTHER -> c
Lower(text) == [i \in 1..Len(text) |-> LowerChar(text[i])]

\* research_keywords
ResearchKeywords ==
    << <<"r", "e", "s", "e", "a", "r", "c", "h">>,
       <<"h", "i", "s", "t", "o", "r", "y">>,
       <<"f", "i", "n", "d", " ", "o", "u", "t">>,
       <<"l", "o", "o", "k", " ", "u", "p">>,
       <<"s", "e", "a", "r", "c", "h", " ", "f", "o", "r">>,
       <<"w", "h", "a", "t", " ", "i", "s">>,
       <<"w", "h", "o", " ", "i", "s">>,
       <<"w", "h", "e", "n", " ", "d", "i", "d">>,
       <<"w", "h", "e", "r", "e", " ", "i", "s">>,
       <<"h", "o", "w", " ", "d", "i", "d">>,
       <<"f", "a", "c", "t", "s", " ", "a", "b", "o", "u", "t">>,
       <<"i", "n", "f", "o", "r", "m", "a", "t", "i", "o", "n", " ", "a", "b", "o", "u", "t">>,
       <<"t", "e", "l", "l", " ", "m", "e", " ", "a", "b", "o", "u", "t">>,
       <<"i", "n", "v", "e", "s", "t", "i", "g", "a", "t", "e">>,
       <<"d", "i", "s", "c", "o", "v", "e", "r">>,
       <<"l", "e", "a", "r", "n", " ", "a", "b", "o", "u", "t">>,
       <<"e", "x", "p", "l", "o", "r", "e">>,
       <<"t", "i", "m", "e", "l", "i", "n", "e">>,
       <<"o", "r", "i", "g", "i", "n", "s">>,
       <<"e", "v", "o", "l", "u", "t", "i", "o", "n">>,
       <<"d", "e", "v", "e", "l", "o", "p", "m", "e", "n", "t", " ", "o", "f">> >>
\* compute_keywords
ComputeKeywords ==
    << <<"c", "a", "l", "c", "u", "l", "a", "t", "e">>,
       <<"c", "o", "m", "p", "u", "t", "e">>,
       <<"f", "i", "b", "o", "n", "a", "c", "c", "i">>,
       <<"s", "u", "m">>,
       <<"m", "u", "l", "t", "i", "p", "l", "y">>,
       <<"d", "i", "v", "i", "d", "e">>,
       <<"s", "u", "b", "t", "r", "a", "c", "t">>,
       <<"a", "d", "d">>,
       <<"m", "a", "t", "h">>,
       <<"e", "q", "u", "a", "t", "i", "o", "n">>,
       <<"f", "a", "c", "t", "o", "r", "i", "a", "l">>,
       <<"p", "r", "i", "m", "e">>,
       <<"a", "v", "e", "r", "a", "g", "e">>,
       <<"p", "e", "r", "c", "e", "n", "t", "a", "g", "e">>,
       <<"s", "o", "l", "v", "e">> >>
\* data_keywords
DataKeywords ==
    << <<"f", "e", "t", "c", "h", " ", "d", "a", "t", "a">>,
       <<"p", "a", "r", "s", "e", " ", "j", "s", "o", "n">>,
       <<"p", "a", "r", "s", "e", " ", "c", "s", "v">>,
       <<"t", "r", "a", "n", "s", "f", "o", "r", "m", " ", "d", "a", "t", "a">>,
       <<"a", "p", "i", " ", "c", "a", "l", "l">>,
       <<"e", "x", "t", "r", "a", "c", "t", " ", "f", "r", "o", "m">>,
       <<"c", "o", "n", "v", "e", "r", "t", " ", "f", "o", "r", "m", "a", "t">>,
       <<"d", "a", "t", "a", " ", "f", "r", "o", "m">> >>
\* code_keywords
CodeKeywords ==
    << <<"w", "r", "i", "t", "e", " ", "c", "o", "d", "e">>,
       <<"g", "e", "n", "e", "r", "a", "t", "e", " ", "c", "o", "d", "e">>,
       <<"c", "r", "e", "a", "t", "e", " ", "s", "c", "r", "i", "p", "t">>,
       <<"p", "r", "o", "g", "r", "a", "m">>,
       <<"f", "u", "n", "c", "t", "i", "o", "n", " ", "t", "o">>,
       <<"i", "m", "p", "l", "e", "m", "e", "n", "t">>,
       <<"c", "o", "d", "e", " ", "s", "n", "i", "p", "p", "e", "t">>,
       <<"w", "r", "i", "t", "e", " ", "a", " ", "f", "u", "n", "c", "t", "i", "o", "n">> >>
\* synthesis_keywords
SynthesisKeywords ==
    << <<"w", "r", "i", "t", "e", " ", "a", " ", "p", "o", "e", "m">>,
       <<"w", "r", "i", "t", "e", " ", "a", " ", "s", "t", "o", "r", "y">>,
       <<"c", "r", "e", "a", "t", "i", "v", "e", " ", "w", "r", "i", "t", "i", "n", "g">>,
       <<"o", "p", "i", "n", "i", "o", "n", " ", "o", "n">>,
       <<"y", "o", "u", "r", " ", "t", "h", "o", "u", "g", "h", "t", "s">>,
       <<"i", "m", "a", "g", "i", "n", "e">>,
       <<"c", "o", "m", "p", "o", "s", "e">> >>
\* the question words of the fallback
QuestionWords ==
    << <<"w", "h", "a", "t">>,
       <<"w", "h", "o">>,
       <<"w", "h", "e", "n">>,
       <<"w", "h", "e", "r", "e">>,
       <<"w", "h", "y">>,
       <<"h", "o", "w">> >>

\* any(kw in task_lower for kw in keywords)
AnyIn(task_lower, keywords) ==
    \E i \in 1..Len(keywords) : Contains(task_lower, keywords[i])

\* the classification dict; the reasoning is named by its branch
Classification(agent_type, required_apis, reasoning) ==
    [agent_type |-> agent_type, required_apis |-> required_apis,
     reasoning |-> reasoning]

\* classify_task with the compute keywords looked at before the research ones
ClassifyComputeFirst(refined_task) ==
    LET task_lower == Lower(refined_task)
    IN  IF AnyIn(task_lower, ComputeKeywords)
        THEN Classification("compute_agent", << >>, "computation")
        ELSE IF AnyIn(task_lower, ResearchKeywords)
        THEN Classification("research_agent", <<"GOOGLE_SEARCH_API_KEY">>,
                            "research")
        ELSE IF AnyIn(task_lower, DataKeywords)
        THEN Classification("data_agent", << >>, "data")
        ELSE IF AnyIn(task_lower, CodeKeywords)
        THEN Classification("code_agent", << >>, "code")
        ELSE IF AnyIn(task_lower, SynthesisKeywords)
        THEN Classification("synthesis_agent", <<"GEMINI_API_KEY">>, "synthesis")
        ELSE IF AnyIn(task_lower, QuestionWords)
        THEN Classification("research_agent", <<"GOOGLE_SEARCH_API_KEY">>,
                            "question")
        ELSE Classification("synthesis_agent", <<"GEMINI_API_KEY">>, "fallback")

\* SubAgentController.classify_task on the characters of the refined task
Classify(refined_task) ==
    LET task_lower == Lower(refined_task)
    IN  IF AnyIn(task_lower, ResearchKeywords)
        THEN Classification("research_agent", <<"GOOGLE_SEARCH_API_KEY">>,
                            "research")
        ELSE IF AnyIn(task_lower, ComputeKeywords)
        THEN Classification("compute_agent", << >>, "computation")
        ELSE IF AnyIn(task_lower, DataKeywords)
        THEN Classification("data_agent", << >>, "data")
        ELSE IF AnyIn(task_lower, CodeKeywords)
        THEN Classification("code_agent", << >>, "code")
        ELSE IF AnyIn(task_lower, SynthesisKeywords)
        THEN Classification("synthesis_agent", <<"GEMINI_API_KEY">>, "synthesis")
        ELSE IF AnyIn(task_lower, QuestionWords)
        THEN Classification("research_agent", <<"GOOGLE_SEARCH_API_KEY">>,
                            "question")
        ELSE Classification("synthesis_agent", <<"GEMINI_API_KEY">>, "fallback")

\* k8s_required_keywords
K8sRequiredKeywords ==
    << <<"a", "p", "i">>,
       <<"h", "t", "t", "p">>,
       <<"f", "e", "t", "c", "h">>,
       <<"r", "e", "q", "u", "e", "s", "t">>,
       <<"d", "o", "w", "n", "l", "o", "a", "d">>,
       <<"s", "e", "c", "r", "e", "t">>,
       <<"k", "e", "y">>,
       <<"c", "r", "e", "d", "e", "n", "t", "i", "a", "l">>,
       <<"a", "u", "t", "h">>,
       <<"t", "o", "k", "e", "n">>,
       <<"d", "a", "t", "a", "b", "a", "s", "e">>,
       <<"s", "t", "o", "r", "a", "g", "e">>,
       <<"p", "e", "r", "s", "i", "s", "t">>,
       <<"s", "a", "v", "e">>,
       <<"f", "i", "l", "e">>,
       <<"d", "o", "c", "k", "e", "r">>,
       <<"c", "o", "n", "t", "a", "i", "n", "e", "r">>,
       <<"d", "e", "p", "l", "o", "y">> >>
\* wasm_suitable_keywords
WasmSuitableKeywords ==
    << <<"c", "a", "l", "c", "u", "l", "a", "t", "e">>,
       <<"c", "o", "m", "p", "u", "t", "e">>,
       <<"m", "a", "t", "h">>,
       <<"f", "i", "b", "o", "n", "a", "c", "c", "i">>,
       <<"p", "r", "i", "m", "e">>,
       <<"f", "a", "c", "t", "o", "r", "i", "a", "l">>,
       <<"s", "u", "m">>,
       <<"m", "u", "l", "t", "i", "p", "l", "y">>,
       <<"d", "i", "v", "i", "d", "e">>,
       <<"a", "d", "d">>,
       <<"p", "a", "r", "s", "e">>,
       <<"t", "r", "a", "n", "s", "f", "o", "r", "m">>,
       <<"f", "o", "r", "m", "a", "t">>,
       <<"c", "o", "n", "v", "e", "r", "t">>,
       <<"e", "n", "c", "o", "d", "e">>,
       <<"d", "e", "c", "o", "d", "e">>,
       <<"s", "o", "r", "t">>,
       <<"f", "i", "l", "t", "e", "r">>,
       <<"p", "r", "o", "c", "e", "s", "s">>,
       <<"a", "n", "a", "l", "y", "z", "e">> >>

\* the required_apis lists passed to is_wasm_suitable
ApiLists == { << >>, <<"GOOGLE_SEARCH_API_KEY">>, <<"GEMINI_API_KEY">> }

\* is_wasm_suitable without the look at required_apis
IsWasmSuitableWhateverApis(task_description, required_apis) ==
    LET task_lower == Lower(task_description)
    IN  IF AnyIn(task_lower, K8sRequiredKeywords) THEN FALSE
        ELSE IF AnyIn(task_lower, WasmSuitableKeywords) THEN TRUE
        ELSE FALSE

\* is_wasm_suitable
IsWasmSuitable(task_description, required_apis) ==
    LET task_lower == Lower(task_description)
    IN  IF Len(required_apis) > 0 THEN FALSE
        ELSE IF AnyIn(task_lower, K8sRequiredKeywords) THEN FALSE
        ELSE IF AnyIn(task_lower, WasmSuitableKeywords) THEN TRUE
        ELSE FALSE

(***************************************************************************)
(* The memory scenario: any sequence of start_task, complete_task,         *)
(* run_lifecycle and consolidate calls, with the clock advancing in        *)
(* between.                                                                *)
(***************************************************************************)
\* the complete_task calls recorded for no class yet
NoneDone == [a \in MemTypes |-> [n |-> 0, sum |-> 0]]

\* done: per class, the number of complete_task calls and the sum of their
\* durations; passes: the number of lifecycle passes run
NewObs == [ done |-> NoneDone, passes |-> 0 ]

\* the similarities a lifecycle pass may see: not looked at without a current task
SimsOver(m, keys) ==
    IF ~HasCurrent(m) THEN {[k \in keys |-> 500000]} ELSE [keys -> RelLevels]

\* the complete_task call of the current task, recorded
Recorded(done, m, t) ==
    IF ~HasCurrent(m) THEN done
    ELSE [done EXCEPT ![Current(m).agent_type] =
            [n |-> @.n + 1, sum |-> @.sum + t]]

MemInit ==
    /\ mem = NewMemory
    /\ now = 0
    /\ obs = NewObs
    /\ memory = TRUE
    /\ probe = NoProbe
    /\ SideIdle
    /\ run = IdleRun
    /\ ctl = NewCtl
    /\ registry = EmptyMap
    /\ clock = 0
    /\ trace = NewTrace

MStartTask(raw, atype) ==
    /\ mem.nextId <= MaxTasks
    /\ mem' = StartTask(mem, raw, "", atype, now)
    /\ UNCHANGED <<now, obs, orch>>

MCompleteTask(outcome, t) ==
    /\ mem' = CompleteTask(mem, outcome, "summary", t, NoImage, None, now)
    /\ obs' = [obs EXCEPT !.done = Recorded(@, mem, t)]
    /\ UNCHANGED <<now, orch>>

MRunLifecycle ==
    /\ obs.passes < MaxPasses
    /\ \E simE \in SimsOver(mem, DOMAIN mem.episodic) :
       \E simS \in SimsOver(mem, MemTypes) :
          mem' = RunLifecyclePass(mem, simE, simS, now)
    /\ obs' = [obs EXCEPT !.passes = @ + 1]
    /\ UNCHANGED <<now, orch>>

MConsolidate ==
    /\ obs.passes < MaxPasses
    /\ mem' = Consolidate(mem, [k \in 1..mem.nextId |-> 500000],
                           [k \in MemTypes |-> 500000], now)
    /\ obs' = [obs EXCEPT !.passes = @ + 1,
                          !.done = Recorded(@, mem, 0)]
    /\ UNCHANGED <<now, orch>>

MAdvance(d) ==
    /\ d > now
    /\ now' = d
    /\ UNCHANGED <<mem, obs, orch>>

MemNext ==
    \/ \E atype \in MemTypes : MStartTask("task", atype)
    \/ \E outcome \in Outcomes, t \in Durations : MCompleteTask(outcome, t)
    \/ MRunLifecycle
    \/ MConsolidate
    \/ \E d \in Days : MAdvance(d)

SpecMem == MemInit /\ [][MemNext]_vars

(***************************************************************************)
(* The running-mean scenario: start_task and complete_task calls only.     *)
(***************************************************************************)
MeanStartTask(atype) ==
    /\ mem.nextId <= MaxCalls
    /\ mem' = StartTask(mem, "task", "", atype, now)
    /\ UNCHANGED <<now, obs, orch>>

MeanNext ==
    \/ \E atype \in MemTypes : MeanStartTask(atype)
    \/ \E outcome \in Outcomes, t \in MeanDurations : MCompleteTask(outcome, t)

SpecMean == MemInit /\ [][MeanNext]_vars

(***************************************************************************)
(* The orchestrator: handle_complex_task calls, one after the other, each  *)
(* running search, build (create_agent) and execution step by step.        *)
(***************************************************************************)
Init ==
    /\ mem = NewMemory
    /\ now = 0
    /\ obs = NewObs
    /\ probe = NoProbe
    /\ SideIdle
    /\ memory \in BOOLEAN
    /\ run = IdleRun
    /\ ctl = NewCtl
    /\ registry = EmptyMap
    /\ clock = 0
    /\ trace = NewTrace

\* memory.complete_task(...) behind "if memory"
Finalize(outcome, summary, t, image, err) ==
    IF memory THEN CompleteTask(mem, outcome, summary, t, image, err, now) ELSE mem

\* the id of the entry such a call stores
FinalizedId == IF memory /\ HasCurrent(mem) THEN CompleteTaskId(mem) ELSE trace.finalId

\* handle_complex_task up to the search: start_task(task, task, "unknown")
HandleStart(task) ==
    /\ run.pc = "idle"
    /\ run.count < MaxRuns
    /\ mem' = IF memory THEN StartTask(mem, task, task, "unknown", now) ELSE mem
    /\ run' = [IdleRun EXCEPT !.pc = "search", !.task_spec = task,
                              !.count = run.count + 1]
    /\ ctl' = NewCtl
    /\ trace' = NewTrace
    /\ clock' = clock + 1
    /\ UNCHANGED <<now, obs, memory, probe, side, registry>>

\* a routing that asks the registry first and memory second
SearchRouteRegistryFirst(hit, memImage, found) ==
    IF found # NoImage THEN [image |-> found, source |-> "registry"]
    ELSE IF hit THEN [image |-> memImage, source |-> "memory"]
    ELSE [image |-> NoImage, source |-> "new"]

\* the routing of handle_complex_task: the image of the memory hit, else the
\* registry's answer, else nothing (agent_source stays "new")
SearchRoute(hit, memImage, found) ==
    IF hit THEN [image |-> memImage, source |-> "memory"]
    ELSE IF found # NoImage THEN [image |-> found, source |-> "registry"]
    ELSE [image |-> NoImage, source |-> "new"]

\* the search: the most similar episodic row first, then the registry
SearchStep(S, reachable) ==
    /\ run.pc = "search"
    /\ S \in (IF memory THEN TopSimilar(mem.episodic, 1) ELSE {{}})
    /\ LET hit == \E id \in S : /\ mem.episodic[id].outcome = "success"
                                /\ mem.episodic[id].agent_image # NoImage
           memImage == IF hit
                       THEN mem.episodic[CHOOSE id \in S : TRUE].agent_image
                       ELSE NoImage
           found == IF reachable THEN Search(registry, run.task_spec) ELSE NoImage
           route == SearchRoute(hit, memImage, found)
       IN  /\ mem' = [mem EXCEPT !.episodic = TouchAll(@, S, now)]
           /\ run' = [run EXCEPT !.agent_image = route.image,
                                 !.agent_source = route.source,
                                 !.pc = IF route.image # NoImage THEN "exec"
                                        ELSE "refine"]
           /\ trace' = [trace EXCEPT !.topHit = hit, !.topImage = memImage,
                                     !.found = found]
    /\ UNCHANGED <<now, obs, memory, probe, side, ctl, registry, clock>>

\* create_agent up to the phase-1 loop: refine, classify, start_task, context
RefineStep(refined, S, P) ==
    /\ run.pc = "refine"
    /\ S \in (IF memory THEN TopSimilar(mem.episodic, 3) ELSE {{}})
    /\ P \in (IF memory THEN TopSimilar(mem.semantic, 2) ELSE {{}})
    /\ LET atype == ClassifyTask(refined)
           started == StartTask(mem, run.task_spec, refined, atype, now)
       IN  /\ mem' = IF memory THEN RecallContext(started, S, P, atype, now) ELSE mem
           /\ ctl' = [NewCtl EXCEPT !.refined_task = refined, !.agent_type = atype]
    /\ run' = [run EXCEPT !.pc = "generate"]
    /\ UNCHANGED <<now, obs, memory, probe, side, registry, clock, trace>>

\* if not current_code: current_code = generate_go_code(...)
GenerateStep(source) ==
    /\ run.pc = "generate"
    /\ ctl' = [ctl EXCEPT !.current_code = source]
    /\ run' = [run EXCEPT !.pc = "compile"]
    /\ UNCHANGED <<mem, now, obs, memory, probe, side, registry, clock, trace>>

\* a failure branch that records nothing
BuildFailedUnrecorded(m, e) ==
    /\ mem' = m
    /\ run' = [IdleRun EXCEPT !.count = run.count]

\* the except branch of handle_complex_task around create_agent
BuildFailed(m, e) ==
    /\ mem' = IF memory
              THEN CompleteTask(m, "failure", "", 0, NoImage, Str(e), now)
              ELSE m
    /\ run' = [IdleRun EXCEPT !.count = run.count]

\* the refine LLM call fails for every model of the list: refine_task raises
\* before start_task, and create_agent raises to handle_complex_task
RefineRaises ==
    /\ run.pc = "refine"
    /\ ctl' = NewCtl
    /\ trace' = [trace EXCEPT !.result = "build_failed",
                              !.finalId = FinalizedId,
                              !.raised = Str(RefineError)]
    /\ BuildFailed(mem, RefineError)
    /\ UNCHANGED <<now, obs, memory, probe, side, registry, clock>>

\* compile_in_docker(current_code) returns the binary
CompileOk ==
    /\ run.pc = "compile"
    /\ ctl.current_code # EmptySource
    /\ ctl' = [ctl EXCEPT !.binary_data = BinaryOf(ctl.current_code)]
    /\ run' = [run EXCEPT !.pc = "package"]
    /\ trace' = [trace EXCEPT !.compiles = @ + 1,
                              !.afterFix = IF trace.fixes = 0 THEN "none"
                                           ELSE IF ctl.current_code = trace.fixRet
                                           THEN "fixed" ELSE "other"]
    /\ UNCHANGED <<mem, now, obs, memory, probe, side, registry, clock>>

\* compile_in_docker(current_code) raises e: a repair is asked for while
\* attempts remain, otherwise create_agent raises
CompileFail(e) ==
    /\ run.pc = "compile"
    /\ LET attempt == ctl.attempt + 1
           seen == [trace EXCEPT !.compiles = @ + 1, !.compileFails = @ + 1,
                                 !.afterFix = IF trace.fixes = 0 THEN "none"
                                              ELSE IF ctl.current_code = trace.fixRet
                                              THEN "fixed" ELSE "other"]
       IN  IF Phase1Retry(attempt)
           THEN /\ ctl' = [ctl EXCEPT !.attempt = attempt, !.err = e]
                /\ run' = [run EXCEPT !.pc = "fix"]
                /\ trace' = seen
                /\ UNCHANGED mem
           ELSE /\ ctl' = NewCtl
                /\ trace' = [seen EXCEPT !.result = "build_failed",
                                         !.finalId = FinalizedId,
                                         !.raised = Str(e)]
                /\ BuildFailed(mem, e)
    /\ UNCHANGED <<now, obs, memory, probe, side, registry, clock>>

\* current_code = fix_code(current_code, str(e)); an empty answer is generated
\* anew at the top of the loop
FixStep(source) ==
    /\ run.pc = "fix"
    /\ ctl' = [ctl EXCEPT !.current_code = source, !.err = NoError]
    /\ run' = [run EXCEPT !.pc = IF source = EmptySource THEN "generate"
                                 ELSE "compile"]
    /\ LET prompt == FixPrompt(ctl.current_code, Str(ctl.err))
       IN  trace' = [trace EXCEPT
                        !.fixes = @ + 1,
                        !.fixGot = IF ctl.current_code \notin prompt
                                   THEN "no_source"
                                   ELSE IF /\ ctl.err.stderr # ""
                                           /\ ctl.err.stderr \notin prompt
                                   THEN "no_error_text" ELSE "both",
                        !.fixRet = source]
    /\ UNCHANGED <<mem, now, obs, memory, probe, side, registry, clock>>

\* the except branch of the phase-2 loop: sleep(1) and retry while attempts
\* remain, otherwise complete_task("failure") and raise
Phase2Failure(e, t, seen) ==
    LET attempt == ctl.attempt_p2 + 1
    IN  IF Phase2Retry(attempt)
        THEN /\ ctl' = [ctl EXCEPT !.attempt_p2 = attempt]
             /\ clock' = clock + 1
             /\ run' = [run EXCEPT !.pc = "package"]
             /\ trace' = seen
             /\ UNCHANGED mem
        ELSE /\ ctl' = NewCtl
             /\ clock' = clock
             /\ trace' = [seen EXCEPT !.result = "build_failed",
                                      !.finalId = FinalizedId,
                                      !.raised = Str(e)]
             /\ BuildFailed(Finalize("failure", "", t, NoImage, Str(e)), e)

\* build_and_push(binary_data, agent_name, metadata) pushes the image
PackageOk ==
    /\ run.pc = "package"
    /\ LET name == AgentName(ctl.agent_type, clock)
           metadata == Metadata(ctl.refined_task, ctl.agent_type, clock)
       IN  /\ registry' = BuildAndPush(registry, ctl.binary_data, name, metadata)
           /\ ctl' = [ctl EXCEPT !.image_tag = name]
    /\ run' = [run EXCEPT !.pc = "verify"]
    /\ trace' = [trace EXCEPT !.packages = @ + 1,
                              !.binaries = @ \cup {ctl.binary_data}]
    /\ UNCHANGED <<mem, now, obs, memory, probe, side, clock>>

\* build_and_push raises: docker build or docker push failed
PackageFail(t) ==
    /\ run.pc = "package"
    /\ Phase2Failure(BuildError, t,
                     [trace EXCEPT !.packages = @ + 1, !.pkgFails = @ + 1,
                                   !.binaries = @ \cup {ctl.binary_data}])
    /\ UNCHANGED <<now, obs, memory, probe, side, registry>>

\* verify_image(image_tag), then complete_task("success") and return
VerifyStep(rc, stdout, t) ==
    /\ run.pc = "verify"
    /\ LET seen == [trace EXCEPT !.verifies = @ + 1,
                                 !.allSegv = @ /\ rc = 139]
       IN  IF VerifyImage(rc, stdout)
           THEN /\ mem' = Finalize("success", "Created agent", t, ctl.image_tag,
                                   None)
                /\ run' = [run EXCEPT !.agent_image = ctl.image_tag,
                                      !.agent_source = "built", !.pc = "exec"]
                /\ trace' = [seen EXCEPT !.finalId = FinalizedId]
                /\ ctl' = NewCtl
                /\ clock' = clock
           ELSE Phase2Failure(VerifyError(rc), t, seen)
    /\ UNCHANGED <<now, obs, memory, probe, side, registry>>

\* docker run of the agent returns rc; the result is stored unless the agent
\* was built in this call
ExecStep(rc, t) ==
    /\ run.pc = "exec"
    /\ mem' = IF run.agent_source # "built"
              THEN Finalize(IF rc = 0 THEN "success" ELSE "failure", "stdout", t,
                            run.agent_image, None)
              ELSE mem
    /\ trace' = [trace EXCEPT !.execRc = rc, !.result = "executed",
                              !.execs = @ + 1,
                              !.finalId = IF run.agent_source # "built"
                                          THEN FinalizedId ELSE @]
    /\ run' = [IdleRun EXCEPT !.count = run.count]
    /\ UNCHANGED <<now, obs, memory, probe, side, ctl, registry, clock>>

\* docker run of the agent raises
ExecRaises ==
    /\ run.pc = "exec"
    /\ mem' = IF run.agent_source # "built"
              THEN Finalize("failure", "", 0, NoImage, "error running container")
              ELSE mem
    /\ trace' = [trace EXCEPT !.result = "exec_error",
                              !.execs = @ + 1,
                              !.finalId = IF run.agent_source # "built"
                                          THEN FinalizedId ELSE @]
    /\ run' = [IdleRun EXCEPT !.count = run.count]
    /\ UNCHANGED <<now, obs, memory, probe, side, ctl, registry, clock>>

Next ==
    \/ \E task \in TaskTexts : HandleStart(task)
    \/ \E S \in SUBSET DOMAIN mem.episodic, reachable \in BOOLEAN :
            SearchStep(S, reachable)
    \/ \E refined \in RefinedTexts, S \in SUBSET DOMAIN mem.episodic,
          P \in SUBSET DOMAIN mem.semantic : RefineStep(refined, S, P)
    \/ RefineRaises
    \/ \E source \in LlmSources : GenerateStep(source)
    \/ CompileOk
    \/ \E e \in CompileErrors : CompileFail(e)
    \/ \E source \in LlmSources : FixStep(source)
    \/ PackageOk
    \/ \E t \in ElapsedMs : PackageFail(t)
    \/ \E rc \in VerifyCodes, stdout \in Stdouts, t \in ElapsedMs :
            VerifyStep(rc, stdout, t)
    \/ \E rc \in ExecCodes, t \in ElapsedMs : ExecStep(rc, t)
    \/ ExecRaises

Spec == Init /\ [][Next]_vars

(***************************************************************************)
(* The orchestrator started on the store and the registry an earlier       *)
(* session left behind (the store is a database file, the registry a       *)
(* service: both outlive the process).                                     *)
(***************************************************************************)
\* the registry after an earlier create_agent pushed `pushes` images, one per
\* phase-2 attempt, at the seconds 0 .. pushes-1
RECURSIVE PriorRegistry(_, _)
PriorRegistry(refined, pushes) ==
    IF pushes = 0 THEN EmptyMap
    ELSE LET atype == ClassifyTask(refined)
         IN  BuildAndPush(PriorRegistry(refined, pushes - 1),
                          BinaryOf("main_a.go"),
                          AgentName(atype, pushes - 1),
                          Metadata(refined, atype, pushes - 1))

\* the store after that call: its task finalized as success with the last
\* image pushed, or as failure
PriorMemory(task, refined, pushes, ok) ==
    LET atype == ClassifyTask(refined)
        started == StartTask(StartTask(NewMemory, task, task, "unknown", 0),
                             task, refined, atype, 0)
    IN  IF ok
        THEN CompleteTask(started, "success", "Created agent", 3,
                          AgentName(atype, pushes - 1), None, 0)
        ELSE CompleteTask(started, "failure", "", 3, NoImage,
                          "SIGSEGV (139) detected during verification", 0)

RouteInit ==
    /\ now = 0
    /\ obs = NewObs
    /\ probe = NoProbe
    /\ SideIdle
    /\ memory \in BOOLEAN
    /\ run = IdleRun
    /\ ctl = NewCtl
    /\ trace = NewTrace
    /\ \E task \in TaskTexts, refined \in RefinedTexts, pushes \in 0..2,
          ok \in BOOLEAN :
            /\ ok => pushes >= 1
            /\ ok \/ pushes <= 1
            /\ mem = PriorMemory(task, refined, pushes, ok)
            /\ registry = PriorRegistry(refined, pushes)
            /\ clock = pushes

SpecRoute == RouteInit /\ [][Next]_vars

(***************************************************************************)
(* Properties of the memory store.                                         *)
(***************************************************************************)
\* the step is a start_task call
IsStartTask == mem'.nextId = mem.nextId + 1

\* the step holds a complete_task call that found a current task
IsCompleteTask == obs'.done # obs.done

\* C6 (as claimed): start_task on an occupied working slot completes the prior
\* task as partial, so that it is an episodic entry once the new task is current.
C6_PriorTaskPartialCompleted ==
    [][ (IsStartTask /\ HasCurrent(mem)) =>
            /\ CurrentId(mem) \in DOMAIN mem'.episodic
            /\ mem'.episodic[CurrentId(mem)].outcome = "partial" ]_vars

\* no episodic row has outcome pending
NoPendingRow ==
    \A id \in DOMAIN mem.episodic : mem.episodic[id].outcome # "pending"

\* complete_task on a current task leaves the working slot empty and the task
\* as a row of tier episodic
CompletePromotes ==
    IsCompleteTask =>
        /\ ~HasCurrent(mem')
        /\ CurrentId(mem) \in DOMAIN mem'.episodic
        /\ mem'.episodic[CurrentId(mem)].current_tier = "episodic"

\* C7: after complete_task returns for a current task the working slot is empty
\* and the episodic store holds the task's row in tier episodic; and in every
\* state reached by start_task, complete_task, consolidate (and lifecycle) calls
\* no episodic row has outcome pending.
C7_CompletedTaskIsEpisodic == []NoPendingRow /\ [][CompletePromotes]_vars

\* a task was completed: the slot is empty and its row is in the episodic tier
C7_Witness ==
    /\ ~HasCurrent(mem)
    /\ \E a \in MemTypes : obs.done[a].n > 0
    /\ \E id \in DOMAIN mem.episodic :
          /\ mem.episodic[id].current_tier = "episodic"
          /\ mem.episodic[id].outcome = "failure"

\* C8: every semantic row has 0 <= successful_executions <= total_executions
\* and avg_execution_time_ms >= 0, whatever complete_task calls and lifecycle
\* passes came before.
C8_SemanticRowBounds ==
    \A a \in DOMAIN mem.semantic :
        LET cap == mem.semantic[a]
        IN  /\ 0 <= cap.successful_executions
            /\ cap.successful_executions <= cap.total_executions
            /\ cap.avg_execution_time_ms[1] >= 0
            /\ cap.avg_execution_time_ms[2] > 0

\* a lifecycle pass has distilled a row into a class that has failures on record
C8_Witness ==
    /\ obs.passes > 0
    /\ \E a \in DOMAIN mem.semantic :
          /\ mem.semantic[a].total_executions > obs.done[a].n
          /\ mem.semantic[a].successful_executions < mem.semantic[a].total_executions
          /\ mem.semantic[a].successful_executions > 0

\* C9: after n complete_task calls for a class with durations d1..dn (and no
\* lifecycle pass) the class's avg_execution_time_ms is (d1 + ... + dn) / n and
\* its total_executions is n.
C9_RunningMeanIsMean ==
    obs.passes = 0 =>
        \A a \in MemTypes :
            obs.done[a].n > 0 =>
                /\ a \in DOMAIN mem.semantic
                /\ mem.semantic[a].total_executions = obs.done[a].n
                /\ mem.semantic[a].avg_execution_time_ms
                     = Frac(obs.done[a].sum, obs.done[a].n)

\* three executions of one class whose mean is not a whole number
C9_Witness ==
    \E a \in DOMAIN mem.semantic :
        /\ obs.done[a].n = 3
        /\ mem.semantic[a].total_executions = 3
        /\ mem.semantic[a].avg_execution_time_ms[2] = 3

(***************************************************************************)
(* Dockerizer.verify_image on its own: one call per exit code and output.  *)
(***************************************************************************)
VerifyInit == MemInit

\* the call is made for an exit code and an output of the verify run
VerifyCall(rc, stdout) ==
    /\ probe.result = "idle"
    /\ probe' = [rc |-> rc, stdout |-> stdout, result |-> "running"]
    /\ UNCHANGED <<mem, now, obs, memory, run, ctl, registry, clock, trace, side>>

\* verify_image returns True or raises
VerifyReturn ==
    /\ probe.result = "running"
    /\ probe' = [probe EXCEPT !.result = IF VerifyImage(probe.rc, probe.stdout)
                                         THEN "passed" ELSE "raised"]
    /\ UNCHANGED <<mem, now, obs, memory, run, ctl, registry, clock, trace, side>>

VerifyNext ==
    \/ \E rc \in ExitCodes, stdout \in Stdouts : VerifyCall(rc, stdout)
    \/ VerifyReturn

SpecVerify == VerifyInit /\ [][VerifyNext]_vars

(***************************************************************************)
(* Properties of the build pipeline and the orchestrator.                  *)
(***************************************************************************)
\* C1: in one create_agent run the compiler is invoked at most 3 times and
\* fix_code at most 2 times; with the third compile failure the run has ended
\* failed, and build_and_push and verify_image were never invoked
C1_CompileRetryBudget ==
    /\ trace.compiles <= 3
    /\ trace.fixes <= 2
    /\ trace.compileFails = 3 =>
          /\ run.pc = "idle"
          /\ trace.result = "build_failed"
          /\ trace.packages = 0
          /\ trace.verifies = 0

C1_Witness ==
    /\ trace.compiles = 3
    /\ trace.compileFails = 3
    /\ trace.fixes = 2
    /\ trace.result = "build_failed"

\* C2: when every build_and_push succeeded and every verify run exited 139,
\* the ended run made exactly 3 package and 3 verify attempts, all with one
\* binary, ended failed, and (with memory attached) the task's episodic row
\* has outcome "failure"
C2_SegfaultExhaustsRetries ==
    (trace.verifies >= 1 /\ trace.allSegv /\ trace.pkgFails = 0) =>
        /\ trace.verifies <= 3
        /\ Cardinality(trace.binaries) = 1
        /\ run.pc # "exec"
        /\ run.pc = "idle" =>
              /\ trace.packages = 3
              /\ trace.verifies = 3
              /\ trace.result = "build_failed"
              /\ memory =>
                    /\ trace.finalId \in DOMAIN mem.episodic
                    /\ mem.episodic[trace.finalId].outcome = "failure"
                    /\ mem.episodic[trace.finalId].agent_type # "unknown"

C2_Witness ==
    /\ run.pc = "idle"
    /\ memory
    /\ trace.allSegv
    /\ trace.pkgFails = 0
    /\ trace.verifies = 3
    /\ trace.finalId \in DOMAIN mem.episodic
    /\ mem.episodic[trace.finalId].outcome = "failure"

\* C3: every fix_code call receives the source that failed to compile and the
\* compiler's error text, and the compile that follows a fix_code call uses
\* the source that call returned
C3_FixReceivesSourceAndError ==
    /\ trace.fixes > 0 => trace.fixGot = "both"
    /\ trace.afterFix # "other"

C5_ImagesNamedAndLabelled ==
    \A n \in DOMAIN registry :
        /\ n.prefix = "helix"
        /\ n.class \in {"research", "compute", "data", "code", "synthesis"}
        /\ n.infix = << >>
        /\ n.suffix \in Nat
        /\ {"helix.task", "helix.capabilities", "helix.type", "helix.created",
            "helix.author"} \subseteq DOMAIN registry[n].labels

\* C10: when a handle_complex_task call has run its agent, the entry it
\* finalized has outcome "success" exactly when the agent's exit code was 0
C10_OutcomeFollowsExitCode ==
    (memory /\ run.pc = "idle" /\ trace.result = "executed") =>
        /\ trace.finalId \in DOMAIN mem.episodic
        /\ mem.episodic[trace.finalId].outcome = "success" <=> trace.execRc = 0

\* C11: within one handle_complex_task call nothing of the build or the
\* execution has happened while the search runs, the agent has not run while
\* the build runs, and the task is finalized (complete_task) only after the
\* agent's run has completed
C11_StepsSerial ==
    /\ run.pc = "search" => trace = NewTrace
    /\ run.pc \in {"refine", "generate", "compile", "fix", "package", "verify"} =>
          trace.result = "none"
    /\ run.pc \in {"search", "refine", "generate", "compile", "fix", "package",
                   "verify", "exec"} => trace.finalId = NoId

\* C12: once the search is done, a memory hit (the most similar episodic row
\* is a success and carries an image) makes that row's image the agent, from
\* source "memory"; without a hit the registry's answer is the agent, when it
\* has one; and the build pipeline runs exactly when neither gave an image
C12_MemoryHitPreferred ==
    run.pc \notin {"idle", "search"} =>
        LET building ==
                \/ run.pc \in {"refine", "generate", "compile", "fix", "package",
                               "verify"}
                \/ run.agent_source = "built"
        IN  /\ trace.topHit =>
                  /\ run.agent_image = trace.topImage
                  /\ run.agent_source = "memory"
            /\ (~trace.topHit /\ trace.found # NoImage) =>
                  /\ run.agent_image = trace.found
                  /\ run.agent_source = "registry"
            /\ building <=> (~trace.topHit /\ trace.found = NoImage)

\* a memory hit while the registry would have answered with another image
C12_Witness ==
    /\ run.pc = "exec"
    /\ trace.topHit
    /\ trace.found # NoImage
    /\ trace.found # trace.topImage
    /\ run.agent_image = trace.topImage

\* C13: when create_agent has failed (compile attempts or package/verify
\* attempts used up) it has raised to handle_complex_task, no agent was run
\* for the task, and (with memory attached) the task's episodic row has
\* outcome "failure" and the raised error's text, and the working slot is empty
C13_BuildFailureRecorded ==
    trace.result = "build_failed" =>
        /\ run.pc = "idle"
        /\ trace.raised # ""
        /\ trace.execs = 0
        /\ memory =>
              /\ ~HasCurrent(mem)
              /\ trace.finalId \in DOMAIN mem.episodic
              /\ mem.episodic[trace.finalId].outcome = "failure"
              /\ mem.episodic[trace.finalId].error_message = trace.raised
              /\ mem.episodic[trace.finalId].agent_image = NoImage

\* the compile attempts were used up and the failure is on record
C13_Witness ==
    /\ trace.result = "build_failed"
    /\ memory
    /\ trace.packages = 0
    /\ trace.compileFails > 0
    /\ trace.finalId \in DOMAIN mem.episodic
    /\ mem.episodic[trace.finalId].outcome = "failure"
    /\ mem.episodic[trace.finalId].error_message = trace.raised

(***************************************************************************)
(* WASMRegistry._stem on its own: a word is stemmed, then its stem is.     *)
(***************************************************************************)
StemCall(word) ==
    /\ stem.state = "idle"
    /\ stem' = [state |-> "once", word |-> word, once |-> Stem(word)]
    /\ UNCHANGED <<mem, now, obs, memory, run, ctl, registry, clock, trace, probe,
                   rec, uni, wasm, fn, par>>

StemAgain ==
    /\ stem.state = "once"
    /\ stem' = [stem EXCEPT !.state = "twice"] @@ [twice |-> Stem(stem.once)]
    /\ UNCHANGED <<mem, now, obs, memory, run, ctl, registry, clock, trace, probe,
                   rec, uni, wasm, fn, par>>

StemNext ==
    \/ \E word \in WordsUpTo(MaxWordLen) : StemCall(word)
    \/ StemAgain

SpecStem == MemInit /\ [][StemNext]_vars

\* C20: stemming a stem gives the same stem: _stem(_stem(w)) = _stem(w)
C20_StemIdempotent ==
    stem.state = "twice" => stem.twice = stem.once

\* C21: the stem of a word of at least 3 characters has at least 3
\* characters, and a word of fewer than 3 characters is returned unchanged
C21_StemKeepsThreeCharacters ==
    stem.state \in {"once", "twice"} =>
        /\ Len(stem.word) >= 3 => Len(stem.once) >= 3
        /\ Len(stem.word) < 3 => stem.once = stem.word

(***************************************************************************)
(* The WASM registry: store calls, one at a time, each running step by     *)
(* step, and list / get calls of other callers in between the steps.       *)
(***************************************************************************)
WasmInit ==
    /\ mem = NewMemory
    /\ now = 0
    /\ obs = NewObs
    /\ memory = TRUE
    /\ probe = NoProbe
    /\ run = IdleRun
    /\ ctl = NewCtl
    /\ registry = EmptyMap
    /\ clock = 0
    /\ trace = NewTrace
    /\ stem = NoCall
    /\ rec = NoCall
    /\ uni = NoCall
    /\ wasm = NewWasm
    /\ fn = NoCall
    /\ par = NoCall

WasmFrame ==
    UNCHANGED <<mem, now, obs, memory, run, ctl, registry, clock, trace, probe,
                stem, rec, uni, fn, par>>

\* store(agent_name, wasm_binary, manifest) is called: agent_dir.mkdir
StoreBegin(name, binary, manifest) ==
    /\ wasm.call.pc = "none"
    /\ wasm.stores < MaxStores
    /\ wasm' = [wasm EXCEPT
                  !.dir = Mkdir(@, name),
                  !.call = [pc |-> "open_wasm", name |-> name, binary |-> binary,
                            manifest |-> manifest, id |-> wasm.stores + 1],
                  !.seen = NoSeen,
                  !.stores = @ + 1]
    /\ WasmFrame

\* open(wasm_path, "wb")
StoreOpenWasm ==
    /\ wasm.call.pc = "open_wasm"
    /\ wasm' = [wasm EXCEPT
                  !.dir = WriteFile(@, wasm.call.name, wasm.call.manifest.wasm_file,
                                    OpenedFile(wasm.call.id)),
                  !.call.pc = "write_wasm"]
    /\ WasmFrame

\* f.write(wasm_binary) and the close of the with block
StoreWriteWasm ==
    /\ wasm.call.pc = "write_wasm"
    /\ wasm' = [wasm EXCEPT
                  !.dir = WriteFile(@, wasm.call.name, wasm.call.manifest.wasm_file,
                                    BinaryFile(wasm.call.binary, wasm.call.id)),
                  !.call.pc = "open_manifest"]
    /\ WasmFrame

\* open(manifest_path, "w")
StoreOpenManifest ==
    /\ wasm.call.pc = "open_manifest"
    /\ wasm' = [wasm EXCEPT
                  !.dir = WriteFile(@, wasm.call.name, "manifest.json",
                                    OpenedFile(wasm.call.id)),
                  !.call.pc = "write_manifest"]
    /\ WasmFrame

\* json.dump(asdict(manifest), f), the close, and the return of store
StoreWriteManifest ==
    /\ wasm.call.pc = "write_manifest"
    /\ wasm' = [wasm EXCEPT
                  !.dir = WriteFile(@, wasm.call.name, "manifest.json",
                                    ManifestFile(wasm.call.manifest, wasm.call.id)),
                  !.last = [n \in DOMAIN wasm.last \cup {wasm.call.name} |->
                              IF n = wasm.call.name
                              THEN [binary |-> wasm.call.binary,
                                    manifest |-> wasm.call.manifest,
                                    id |-> wasm.call.id]
                              ELSE wasm.last[n]],
                  !.call = NoStore]
    /\ WasmFrame

\* another caller's list_agents()
ReadList ==
    /\ wasm.stores > 0
    /\ wasm' = [wasm EXCEPT
                  !.seen = [NoSeen EXCEPT !.op = "list", !.during = wasm.call.pc,
                                          !.dir = wasm.dir,
                                          !.listed = ListAgents(wasm.dir)]]
    /\ WasmFrame

\* another caller's get_wasm_binary(name) and get_agent_metadata(name)
ReadGet(name) ==
    /\ wasm.stores > 0
    /\ wasm' = [wasm EXCEPT
                  !.seen = [NoSeen EXCEPT !.op = "get", !.during = wasm.call.pc,
                                          !.name = name, !.dir = wasm.dir,
                                          !.listed = ListAgents(wasm.dir),
                                          !.got = GetWasmBinary(wasm.dir, name),
                                          !.task = GetAgentTask(wasm.dir, name)]]
    /\ WasmFrame

WasmNext ==
    \/ \E name \in WasmNames, binary \in WasmBinaries :
          \E manifest \in Manifests(name) : StoreBegin(name, binary, manifest)
    \/ StoreOpenWasm
    \/ StoreWriteWasm
    \/ StoreOpenManifest
    \/ StoreWriteManifest
    \/ ReadList
    \/ \E name \in WasmNames : ReadGet(name)

SpecWasm == WasmInit /\ [][WasmNext]_vars

\* C16: an agent a reader finds in list_agents has, at that moment, a
\* manifest that is present and parses and a binary that is written out, both
\* written by the same store call; and a binary a reader gets is written out
\* and comes from the store call of the manifest that named it
C16_NoPartialEntryVisible ==
    /\ wasm.seen.op = "list" =>
          \A n \in wasm.seen.listed :
              /\ Readable(wasm.seen.dir, n)
              /\ wasm.seen.dir[n]["agent.wasm"].whole
              /\ wasm.seen.dir[n]["agent.wasm"].by
                     = wasm.seen.dir[n]["manifest.json"].by
    /\ (wasm.seen.op = "get" /\ wasm.seen.got.found) =>
          LET path == GetWasmPath(wasm.seen.dir, wasm.seen.name)
          IN  /\ wasm.seen.dir[wasm.seen.name][path].whole
              /\ wasm.seen.dir[wasm.seen.name][path].by
                     = wasm.seen.dir[wasm.seen.name]["manifest.json"].by

\* C17: once store(name, binary, manifest) has returned, list_agents()
\* contains name, whatever the manifest's wasm_file
C17_StoredAgentListed ==
    (wasm.seen.op = "list" /\ wasm.seen.during = "none") =>
        \A n \in DOMAIN wasm.last : n \in wasm.seen.listed

\* C18: once the store calls for a name have returned, get_wasm_binary(name)
\* returns the bytes and get_agent_metadata(name) the task of the latest of
\* them, and list_agents() contains the name
C18_GetReturnsLatestStore ==
    (wasm.seen.op = "get" /\ wasm.seen.during = "none"
        /\ wasm.seen.name \in DOMAIN wasm.last) =>
        /\ wasm.seen.got.found
        /\ wasm.seen.got.bytes = wasm.last[wasm.seen.name].binary
        /\ wasm.seen.task = wasm.last[wasm.seen.name].manifest.task
        /\ wasm.seen.name \in wasm.seen.listed

(***************************************************************************)
(* The unified registry: agents are pushed to the K8s catalog and stored   *)
(* in the WASM registry, and tasks are searched for in between.            *)
(***************************************************************************)
UniInit ==
    /\ mem = NewMemory
    /\ now = 0
    /\ obs = NewObs
    /\ memory = TRUE
    /\ probe = NoProbe
    /\ run = IdleRun
    /\ ctl = NewCtl
    /\ registry = EmptyMap
    /\ clock = 0
    /\ trace = NewTrace
    /\ stem = NoCall
    /\ rec = NoCall
    /\ uni = NewUni
    /\ wasm = NewWasm
    /\ fn = NoCall
    /\ par = NoCall

UniFrame ==
    UNCHANGED <<mem, now, obs, memory, run, ctl, registry, clock, trace, probe,
                stem, rec, fn, par>>

\* an agent image with its helix.task label (NoText: no label) is pushed to
\* the catalog that k8s_registry.list_agents and get_agent_metadata read,
\* replacing the image of that name
UniPush(name, task) ==
    /\ uni' = [uni EXCEPT
                 !.state = "ready",
                 !.catalog = [n \in DOMAIN uni.catalog \cup {name} |->
                                IF n = name THEN task ELSE uni.catalog[n]],
                 !.search = NoSearch]
    /\ UNCHANGED wasm
    /\ UniFrame

\* wasm_registry.store(name, binary, WASMManifest(name=name, task=task)), from
\* call to return; the manifest keeps the default wasm_file, so that the
\* agent is listed
UniStore(name, binary, task) ==
    LET manifest == WASMManifest(name, task, "agent.wasm")
    IN  /\ wasm.stores < MaxStores
        /\ wasm' = [wasm EXCEPT
                      !.dir = WriteFile(
                                 WriteFile(Mkdir(@, name), name, manifest.wasm_file,
                                           BinaryFile(binary, wasm.stores + 1)),
                                 name, "manifest.json",
                                 ManifestFile(manifest, wasm.stores + 1)),
                      !.last = [n \in DOMAIN wasm.last \cup {name} |->
                                  IF n = name
                                  THEN [binary |-> binary, manifest |-> manifest,
                                        id |-> wasm.stores + 1]
                                  ELSE wasm.last[n]],
                      !.stores = @ + 1]
        /\ uni' = [uni EXCEPT !.state = "ready", !.search = NoSearch]
        /\ UniFrame

\* search(task_description, runtime_filter), some requests to the container
\* registry failing while it runs (none is made under the filter "wasm")
UniSearch(task, runtime_filter) ==
    /\ \E agent_name \in WasmSearch(wasm.dir, task) :
       \E failure \in IF runtime_filter = "wasm" THEN {NoFailure}
                       ELSE Failures(DOMAIN uni.catalog) :
          uni' = [uni EXCEPT
                    !.state = "searched",
                    !.search = [task |-> task, runtime_filter |-> runtime_filter,
                                failure |-> failure]
                               @@ UnifiedSearchOver(K8sRead(uni.catalog, failure),
                                                    wasm.dir, task,
                                                    runtime_filter, agent_name)]
    /\ UNCHANGED wasm
    /\ UniFrame

UniNext ==
    \/ \E name \in K8sNames, task \in K8sTasks : UniPush(name, task)
    \/ \E name \in UniWasmNames, binary \in {"wasm_1"}, task \in UniWasmTasks :
          UniStore(name, binary, task)
    \/ \E task \in UniQueries, runtime_filter \in {"any", "k8s", "wasm"} :
          UniSearch(task, runtime_filter)

SpecUnified == UniInit /\ [][UniNext]_vars

\* C14: every match the unified search returns has a score of at least 0.2
C14_ReturnedScoreAtLeastThreshold ==
    (uni.state = "searched" /\ uni.search.result # NoMatch) =>
        uni.search.result.score >= Threshold

\* C15: with a candidate from both registries the search returns the one of
\* the higher score when the scores differ by more than 0.1 and the WASM
\* candidate otherwise; with one candidate it returns that one; with none it
\* returns None
C15_PickRule ==
    uni.state = "searched" =>
        LET k == uni.search.k8s
            w == uni.search.wasm
            far == k.score - w.score > Margin \/ w.score - k.score > Margin
        IN  /\ (k # NoMatch /\ w # NoMatch) =>
                  uni.search.result =
                      IF far THEN (IF k.score > w.score THEN k ELSE w) ELSE w
            /\ (k # NoMatch /\ w = NoMatch) => uni.search.result = k
            /\ (k = NoMatch /\ w # NoMatch) => uni.search.result = w
            /\ (k = NoMatch /\ w = NoMatch) => uni.search.result = NoMatch

\* a search with a candidate from both registries, the K8s one ahead by no
\* more than 0.1
C15_Witness ==
    /\ uni.state = "searched"
    /\ uni.search.k8s # NoMatch
    /\ uni.search.wasm # NoMatch
    /\ uni.search.k8s.score > uni.search.wasm.score
    /\ uni.search.k8s.score - uni.search.wasm.score <= Margin
    /\ uni.search.result = uni.search.wasm

\* the container backend answered none of the requests the search needed
K8sUnreadable ==
    \/ uni.search.failure.list
    \/ uni.search.failure.unread = DOMAIN uni.catalog

C37_K8sHitSharesKeyword ==
    (uni.state = "searched" /\ uni.search.k8s # NoMatch) =>
        PlainKeywords(uni.search.task, K8sStopWords)
            \cap PlainKeywords(uni.search.k8s.task, K8sStopWords) # {}

(***************************************************************************)
(* The episodic table: task memories are stored and recalled by id.        *)
(***************************************************************************)
RecInit ==
    /\ mem = NewMemory
    /\ now = 0
    /\ obs = NewObs
    /\ memory = TRUE
    /\ probe = NoProbe
    /\ run = IdleRun
    /\ ctl = NewCtl
    /\ registry = EmptyMap
    /\ clock = 0
    /\ trace = NewTrace
    /\ stem = NoCall
    /\ rec = NewRec
    /\ uni = NoCall
    /\ wasm = NewWasm
    /\ fn = NoCall
    /\ par = NoCall

RecFrame ==
    UNCHANGED <<mem, now, obs, memory, run, ctl, registry, clock, trace, probe,
                stem, uni, wasm, fn, par>>

\* store(memory): the caller's object gets its embedding, the row is written
RecStore(t) ==
    /\ rec.stores < MaxRecStores
    /\ rec' = [rec EXCEPT
                 !.state = "stored",
                 !.db = [i \in DOMAIN rec.db \cup {t.id.s} |->
                           IF i = t.id.s
                           THEN MemoryToRow(WithEmbedding(t))
                           ELSE rec.db[i]],
                 !.stores = @ + 1,
                 !.day = @ + 1,
                 !.stored = WithEmbedding(t),
                 !.id = "",
                 !.got = NoRecall]
    /\ RecFrame

\* recall_by_id(memory_id): the row is read and converted, then touched
RecRecall(memory_id) ==
    /\ rec.state = "stored"
    /\ rec' = [rec EXCEPT
                 !.state = "recalled",
                 !.db = TouchRow(@, memory_id, rec.day),
                 !.id = memory_id,
                 !.got = IF memory_id \in DOMAIN rec.db
                         THEN [found |-> TRUE,
                               memory |-> RowToMemory(rec.db[memory_id])]
                         ELSE NoRecall]
    /\ RecFrame

RecNext ==
    \/ \E t \in RecMemories : RecStore(t)
    \/ \E memory_id \in RecIds : RecRecall(memory_id)

SpecRecall == RecInit /\ [][RecNext]_vars

\* C19: store(t) followed by recall_by_id(t.id) returns a record equal to t
\* in every field but last_accessed and access_count
C19_RecallEqualsStored ==
    (rec.state = "recalled" /\ rec.id = rec.stored.id.s) =>
        /\ rec.got.found
        /\ [rec.got.memory EXCEPT !.last_accessed = 0, !.access_count = PyInt(0)]
               = [rec.stored EXCEPT !.last_accessed = 0, !.access_count = PyInt(0)]

(***************************************************************************)
(* classify_task and is_wasm_suitable on their own: each call reads its    *)
(* arguments only and changes nothing.                                     *)
(***************************************************************************)
PureFrame ==
    UNCHANGED <<mem, now, obs, memory, run, ctl, registry, clock, trace, probe,
                stem, rec, uni, wasm, par>>

\* classify_task(refined_task)
ClassifyCall(refined_task) ==
    /\ fn = NoCall
    /\ fn' = [state |-> "classified", text |-> refined_task,
              classification |-> Classify(refined_task)]
    /\ PureFrame

\* is_wasm_suitable(task_description, required_apis)
SuitableCall(task_description, required_apis) ==
    /\ fn = NoCall
    /\ fn' = [state |-> "judged", text |-> task_description,
              required_apis |-> required_apis,
              suitable |-> IsWasmSuitable(task_description, required_apis)]
    /\ PureFrame

\* the caller is done with the result
PureReturn ==
    /\ fn # NoCall
    /\ fn' = NoCall
    /\ PureFrame

PureNext ==
    \/ \E refined_task \in PureTexts : ClassifyCall(refined_task)
    \/ \E task_description \in PureTexts, required_apis \in ApiLists :
          SuitableCall(task_description, required_apis)
    \/ PureReturn

SpecPure == MemInit /\ [][PureNext]_vars

\* C22: the class is that of the first keyword group, in the order research,
\* compute, data, code, synthesis, that has a keyword in the lower-cased
\* text; with no such group it is research when the text holds a question
\* word and synthesis otherwise; the credentials are those of the class
C22_ClassByPriority ==
    fn.state = "classified" =>
        LET task_lower == Lower(fn.text)
            groups == <<ResearchKeywords, ComputeKeywords, DataKeywords,
                        CodeKeywords, SynthesisKeywords>>
            classes == <<"research_agent", "compute_agent", "data_agent",
                         "code_agent", "synthesis_agent">>
            has(g) == AnyIn(task_lower, groups[g])
            class == fn.classification.agent_type
        IN  /\ \A g \in 1..5 :
                  (has(g) /\ \A h \in 1..(g - 1) : ~has(h)) => class = classes[g]
            /\ (\A g \in 1..5 : ~has(g)) =>
                  class = IF AnyIn(task_lower, QuestionWords)
                          THEN "research_agent" ELSE "synthesis_agent"
            /\ fn.classification.required_apis =
                  CASE class = "research_agent" -> <<"GOOGLE_SEARCH_API_KEY">>
                    [] class = "synthesis_agent" -> <<"GEMINI_API_KEY">>
                    [] OTHER -> << >>

\* a text with a research and a compute keyword, classified as research
C22_Witness ==
    /\ fn.state = "classified"
    /\ AnyIn(Lower(fn.text), ResearchKeywords)
    /\ AnyIn(Lower(fn.text), ComputeKeywords)
    /\ fn.text # Lower(fn.text)
    /\ fn.classification.agent_type = "research_agent"

\* C23: is_wasm_suitable is True exactly when required_apis is empty, the
\* text holds no container-only keyword and it holds a WASM-suitable keyword
C23_SuitableIff ==
    fn.state = "judged" =>
        (fn.suitable <=>
            /\ fn.required_apis = << >>
            /\ ~AnyIn(Lower(fn.text), K8sRequiredKeywords)
            /\ AnyIn(Lower(fn.text), WasmSuitableKeywords))

\* a text with a WASM-suitable keyword and no container-only keyword, judged
\* unsuitable because a credential is required
C23_Witness ==
    /\ fn.state = "judged"
    /\ fn.required_apis # << >>
    /\ ~AnyIn(Lower(fn.text), K8sRequiredKeywords)
    /\ AnyIn(Lower(fn.text), WasmSuitableKeywords)
    /\ ~fn.suitable

(***************************************************************************)
(* The lifecycle scenario: tasks of one class are started and completed,   *)
(* recalled by id, the clock advances, and lifecycle passes run; the       *)
(* _archive of one row may raise inside its transaction.                   *)
(***************************************************************************)
\* number of TaskMemory objects the lifecycle scenario creates
MaxLifeTasks == 2
\* number of recall_by_id calls the lifecycle scenario makes
MaxTouches == 3
\* number of lifecycle passes the lifecycle scenario runs
MaxLifePasses == 1

\* passes: the passes that returned; raised: the passes an exception left;
\* touches: the recall_by_id calls; stored: the ids complete_task stored;
\* cold and fresh: the ids a pass without a current task found last accessed
\* 60 days ago with access_count 1 and outcome failure, and successful,
\* accessed the same day and touched by every recall of the scenario
NewLifeObs ==
    [ passes |-> 0, raised |-> 0, touches |-> 0, stored |-> {},
      cold |-> {}, fresh |-> {} ]

\* an episodic row last accessed 60 days ago, with access_count 1 and outcome failure
IsCold(row, day) ==
    /\ day - row.last_accessed = 60
    /\ row.access_count = 1
    /\ row.outcome = "failure"

\* a successful episodic row accessed on the day of the pass and as often as
\* the scenario recalls at all
IsFresh(row, day) ==
    /\ row.last_accessed = day
    /\ row.access_count = MaxTouches
    /\ row.outcome = "success"

\* the relevance every row gets without a current task
NoSims == [k \in 1..(MaxLifeTasks + 1) |-> 500000]
NoSimsSemantic == [a \in MemTypes |-> 500000]

LifeInit ==
    /\ mem = NewMemory
    /\ now = 0
    /\ obs = NewLifeObs
    /\ memory = TRUE
    /\ probe = NoProbe
    /\ SideIdle
    /\ run = IdleRun
    /\ ctl = NewCtl
    /\ registry = EmptyMap
    /\ clock = 0
    /\ trace = NewTrace

LifeStartTask ==
    /\ mem.nextId <= MaxLifeTasks
    /\ mem' = StartTask(mem, "task", "", "compute_agent", now)
    /\ UNCHANGED <<now, obs, orch>>

LifeCompleteTask(outcome) ==
    /\ HasCurrent(mem)
    /\ mem' = CompleteTask(mem, outcome, "summary", 0, NoImage, None, now)
    /\ obs' = [obs EXCEPT !.stored = @ \cup {CurrentId(mem)}]
    /\ UNCHANGED <<now, orch>>

\* MemoryManager.recall_by_id: EpisodicMemory.recall_by_id touches the row it finds
LifeRecallById(memory_id) ==
    /\ obs.touches < MaxTouches
    /\ memory_id \in DOMAIN mem.episodic
    /\ mem' = [mem EXCEPT !.episodic = EpisodicTouch(@, memory_id, now)]
    /\ obs' = [obs EXCEPT !.touches = @ + 1]
    /\ UNCHANGED <<now, orch>>

\* the pass sees every similarity of a current task, or none without one
LifeSims == IF HasCurrent(mem) THEN [1..(MaxLifeTasks + 1) -> RelLevels] ELSE {NoSims}

\* the ids a pass finds in a condition, when there is no current task
Found(Cond(_, _)) ==
    IF HasCurrent(mem) THEN {}
    ELSE {id \in DOMAIN mem.episodic : Cond(mem.episodic[id], now)}

\* MemoryManager.run_lifecycle returns
LifeRunLifecycle ==
    /\ obs.passes + obs.raised < MaxLifePasses
    /\ \E simE \in LifeSims :
          mem' = RunLifecyclePass(mem, simE, NoSimsSemantic, now)
    /\ obs' = [obs EXCEPT !.passes = @ + 1,
                          !.cold = @ \cup Found(IsCold),
                          !.fresh = @ \cup Found(IsFresh)]
    /\ UNCHANGED <<now, orch>>

\* MemoryManager.run_lifecycle raises out of the _archive of row bad
LifeRunLifecycleRaises(bad) ==
    /\ obs.passes + obs.raised < MaxLifePasses
    /\ bad \in DOMAIN mem.episodic
    /\ \E simE \in LifeSims :
          /\ ScoreToTier(CalculateLifecycleScore(
                 mem, mem.episodic[bad], TaskSuccessRate(mem.episodic[bad]),
                 simE[bad], now)) = "archive"
          /\ mem' = RunLifecyclePassRaising(mem, bad, simE, now)
    /\ obs' = [obs EXCEPT !.raised = @ + 1]
    /\ UNCHANGED <<now, orch>>

LifeNext ==
    \/ LifeStartTask
    \/ \E outcome \in Outcomes : LifeCompleteTask(outcome)
    \/ \E memory_id \in 1..MaxLifeTasks : LifeRecallById(memory_id)
    \/ LifeRunLifecycle
    \/ \E bad \in 1..MaxLifeTasks : LifeRunLifecycleRaises(bad)
    \/ \E d \in Days : MAdvance(d)

SpecLife == LifeInit /\ [][LifeNext]_vars

\* the step is a lifecycle pass that returned, run without a current task
IsIdlePass == obs'.passes # obs.passes /\ ~HasCurrent(mem)

\* a cold failure scores below 0.2 and the pass leaves no live row of it and
\* an archive row whose snapshot is the entry's five fields
ColdIsArchived ==
    IsIdlePass =>
        \A id \in DOMAIN mem.episodic :
            LET row == mem.episodic[id]
            IN  IsCold(row, now) =>
                  /\ CalculateLifecycleScore(mem, row, TaskSuccessRate(row),
                                             500000, now) < ThresholdSemantic
                  /\ id \notin DOMAIN mem'.episodic
                  /\ id \in DOMAIN mem'.archived
                  /\ Snapshot(mem'.archived[id])
                       = [ raw_task |-> row.raw_task,
                           refined_task |-> row.refined_task,
                           agent_type |-> row.agent_type,
                           outcome |-> row.outcome,
                           result_summary |-> row.result_summary ]

\* every entry complete_task stored is a live row or an archive row
NoEntryLost ==
    \A id \in obs.stored : id \in DOMAIN mem.episodic \cup DOMAIN mem.archived

\* C24: in a lifecycle pass with no current task, an episodic entry last
\* accessed 60 days ago with access_count 1 and outcome failure scores below 0.2
\* and is archived: after the pass its id has no live episodic row and one
\* archive row whose decompressed snapshot equals the entry's raw task, refined
\* task, class, outcome and summary; and in every state, also after a pass that
\* raised, each stored entry is in the episodic table or in the archive table.
C24_ColdFailureArchived == [][ColdIsArchived]_vars /\ []NoEntryLost

\* a pass has archived a cold failure
C24_Witness ==
    \E id \in obs.cold :
        /\ id \in DOMAIN mem.archived
        /\ id \notin DOMAIN mem.episodic
        /\ Snapshot(mem.archived[id]).outcome = "failure"

\* C25 (as claimed): in a lifecycle pass with no current task, a recently
\* accessed, successful, frequently accessed episodic entry is distilled: after
\* the pass its class's total_executions and successful_executions have grown
\* and its refined task is among the class's task patterns.
C25_FreshSuccessDistilled ==
    [][ IsIdlePass =>
          \A id \in DOMAIN mem.episodic :
              LET row == mem.episodic[id]
                  a == row.agent_type
              IN  IsFresh(row, now) =>
                    /\ a \in DOMAIN mem'.semantic
                    /\ a \in DOMAIN mem.semantic =>
                         /\ mem'.semantic[a].total_executions
                              > mem.semantic[a].total_executions
                         /\ mem'.semantic[a].successful_executions
                              > mem.semantic[a].successful_executions
                    /\ \E i \in 1..Len(mem'.semantic[a].task_patterns) :
                          mem'.semantic[a].task_patterns[i] = row.refined_task
      ]_vars

(***************************************************************************)
(* Processes sharing one memory database: each has a MemoryManager and a   *)
(* working slot of its own; every "with get_connection()" block is one     *)
(* committed transaction, and the processes' blocks interleave.            *)
(***************************************************************************)
\* number of tasks the processes start, all in all
MaxParCalls == 3
\* number of lifecycle passes each process runs
MaxParPasses == 1

\* the processes
Workers == {1, 2}
\* the outcomes and execution_time_ms values their complete_task calls pass
ParOutcomes == {"success", "failure"}
ParDurations == {1, 3}

\* a process between two calls: pc is its position, task its working slot,
\* existing what recall_by_agent_type returned, rows what get_all() returned
\* and todo the ids of rows the loop has not reached
IdleWorker ==
    [ pc |-> "idle", task |-> {}, existing |-> {}, rows |-> EmptyMap, todo |-> {},
      calls |-> 0, passes |-> 0 ]

\* started: the start_task calls made; done: the complete_task calls made and
\* the sum of their durations; raised: the calls an exception left; begun:
\* the lifecycle passes begun
NewParObs ==
    [ started |-> 0, done |-> [n |-> 0, sum |-> 0], raised |-> 0, begun |-> 0 ]

ParInit ==
    /\ mem = NewMemory
    /\ now = 0
    /\ obs = NewParObs
    /\ memory = TRUE
    /\ probe = NoProbe
    /\ stem = NoCall
    /\ rec = NoCall
    /\ uni = NoCall
    /\ wasm = NoCall
    /\ fn = NoCall
    /\ par = [w \in Workers |-> IdleWorker]
    /\ run = IdleRun
    /\ ctl = NewCtl
    /\ registry = EmptyMap
    /\ clock = 0
    /\ trace = NewTrace

ParFrame ==
    UNCHANGED <<memory, run, ctl, registry, clock, trace, probe,
                stem, rec, uni, wasm, fn>>

\* the uuid of the next TaskMemory of process w
ParTaskId(w) == w + Cardinality(Workers) * par[w].calls

\* start_task: the process's working slot takes a new pending task
ParStartTask(w) ==
    /\ par[w].pc = "idle"
    /\ par[w].task = {}
    /\ obs.started < MaxParCalls
    /\ par' = [par EXCEPT ![w].task =
                  {TaskMemory(ParTaskId(w), "task", "task", "compute_agent", now)},
                          ![w].calls = @ + 1]
    /\ obs' = [obs EXCEPT !.started = @ + 1]
    /\ UNCHANGED <<mem, now>>
    /\ ParFrame

\* complete_task up to the return of episodic.store: the slot is cleared, the
\* task takes its results and its row is committed
ParCompleteStore(w, outcome, t) ==
    /\ par[w].pc = "idle"
    /\ par[w].task # {}
    /\ LET task == [(CHOOSE x \in par[w].task : TRUE) EXCEPT
                        !.outcome = outcome, !.result_summary = "summary",
                        !.execution_time_ms = t, !.current_tier = "episodic"]
       IN  /\ mem' = [mem EXCEPT !.episodic = EpisodicStore(@, task)]
           /\ par' = [par EXCEPT ![w].pc = "stored", ![w].task = {task}]
    /\ obs' = [obs EXCEPT !.done = [n |-> @.n + 1, sum |-> @.sum + t]]
    /\ UNCHANGED now
    /\ ParFrame

\* update_from_execution: existing = self.recall_by_agent_type(agent_type)
ParRecallCapability(w) ==
    /\ par[w].pc = "stored"
    /\ LET a == (CHOOSE x \in par[w].task : TRUE).agent_type
       IN  par' = [par EXCEPT ![w].pc = "read",
                              ![w].existing = IF a \in DOMAIN mem.semantic
                                              THEN {mem.semantic[a]} ELSE {}]
    /\ UNCHANGED <<mem, now, obs>>
    /\ ParFrame

\* update_from_execution: the row computed from existing is stored (INSERT OR
\* REPLACE, agent_type being UNIQUE), and complete_task returns
ParStoreCapability(w) ==
    /\ par[w].pc = "read"
    /\ LET task == CHOOSE x \in par[w].task : TRUE
           a == task.agent_type
           read == [x \in {y \in {a} : par[w].existing # {}} |->
                       CHOOSE e \in par[w].existing : TRUE]
           row == UpdateFromExecution(read, a, task.outcome = "success",
                                      task.execution_time_ms, now)[a]
       IN  mem' = [mem EXCEPT !.semantic =
                      [x \in DOMAIN mem.semantic \cup {a} |->
                          IF x = a THEN row ELSE mem.semantic[x]]]
    /\ par' = [par EXCEPT ![w].pc = "idle", ![w].task = {}, ![w].existing = {}]
    /\ UNCHANGED <<now, obs>>
    /\ ParFrame

\* an exception leaves complete_task after episodic.store has committed
\* (sqlite3.OperationalError of a connection, or the process is killed)
ParRaise(w) ==
    /\ par[w].pc \in {"stored", "read"}
    /\ par' = [par EXCEPT ![w].pc = "idle", ![w].task = {}, ![w].existing = {}]
    /\ obs' = [obs EXCEPT !.raised = @ + 1]
    /\ UNCHANGED <<mem, now>>
    /\ ParFrame

\* run_lifecycle_pass of a process with an empty working slot:
\* self.memory.episodic.get_all()
ParPassBegin(w) ==
    /\ par[w].pc = "idle"
    /\ par[w].task = {}
    /\ par[w].passes < MaxParPasses
    /\ par' = [par EXCEPT ![w].pc = "pass", ![w].rows = mem.episodic,
                          ![w].todo = DOMAIN mem.episodic, ![w].passes = @ + 1]
    /\ obs' = [obs EXCEPT !.begun = @ + 1]
    /\ UNCHANGED <<mem, now>>
    /\ ParFrame

\* one turn of the loop over the rows get_all() returned
ParPassRow(w) ==
    /\ par[w].pc = "pass"
    /\ par[w].todo # {}
    /\ LET id == CHOOSE i \in par[w].todo : \A j \in par[w].todo : i <= j
       IN  /\ mem' = LifecycleEpisodic(mem, par[w].rows, {id},
                                       [k \in {id} |-> 500000], now)
           /\ par' = [par EXCEPT ![w].todo = @ \ {id}]
    /\ UNCHANGED <<now, obs>>
    /\ ParFrame

\* the loop over the semantic rows, and the pass returns
ParPassSemantic(w) ==
    /\ par[w].pc = "pass"
    /\ par[w].todo = {}
    /\ mem' = LifecycleSemantic(mem, [a \in MemTypes |-> 500000], now)
    /\ par' = [par EXCEPT ![w].pc = "idle", ![w].rows = EmptyMap]
    /\ UNCHANGED <<now, obs>>
    /\ ParFrame

ParNext ==
    \/ \E w \in Workers : ParStartTask(w)
    \/ \E w \in Workers, outcome \in ParOutcomes, t \in ParDurations :
          ParCompleteStore(w, outcome, t)
    \/ \E w \in Workers : ParRecallCapability(w)
    \/ \E w \in Workers : ParStoreCapability(w)
    \/ \E w \in Workers : ParRaise(w)
    \/ \E w \in Workers : ParPassBegin(w)
    \/ \E w \in Workers : ParPassRow(w)
    \/ \E w \in Workers : ParPassSemantic(w)
    \/ \E d \in Days \ {7} : MAdvance(d)

SpecPar == ParInit /\ [][ParNext]_vars

\* no complete_task call is under way, none has raised and no pass has begun
ParQuiet ==
    /\ \A w \in Workers : par[w].pc = "idle"
    /\ obs.raised = 0
    /\ obs.begun = 0

\* C26 (as claimed): updates of one class's semantic aggregates are serialized:
\* once the complete_task calls of the processes have returned, the class has
\* one row whose total_executions is the number of calls and whose mean
\* duration is the mean of all their durations.
C26_SemanticUpdatesSerialized ==
    (ParQuiet /\ obs.done.n > 0) =>
        /\ "compute_agent" \in DOMAIN mem.semantic
        /\ mem.semantic["compute_agent"].total_executions = obs.done.n
        /\ mem.semantic["compute_agent"].avg_execution_time_ms
             = Frac(obs.done.sum, obs.done.n)

\* the processes running a lifecycle pass
InPass == {w \in Workers : par[w].pc = "pass"}

\* C27 (as claimed): a lifecycle pass never runs concurrently with itself: at
\* most one process is inside run_lifecycle_pass, and no row is handled by the
\* loops of two passes under way.
C27_OneLifecyclePassAtATime ==
    /\ Cardinality(InPass) <= 1
    /\ \A w \in InPass : \A v \in InPass \ {w} :
          (DOMAIN par[w].rows \ par[w].todo)
              \cap (DOMAIN par[v].rows \ par[v].todo) = {}

\* the episodic rows and snapshots of a class that complete_task calls wrote
WrittenRows == DOMAIN mem.episodic \cup DOMAIN mem.archived

\* C28 (as claimed): each complete_task is one atomic transaction: in every
\* state another process can observe, and after a failure, the episodic rows
\* written are exactly the executions the class's semantic row counts.
C28_CompleteTaskAtomic ==
    obs.begun = 0 =>
        Cardinality(WrittenRows)
            = IF "compute_agent" \in DOMAIN mem.semantic
              THEN mem.semantic["compute_agent"].total_executions ELSE 0

(***************************************************************************)
(* Build pipelines running side by side: the phase-2 loops of create_agent *)
(* calls in several processes, pushing to one registry under one clock.    *)
(***************************************************************************)
\* the last second the clock of the pipelines scenario reaches
MaxClock == 2

\* a pipeline outside phase 2
IdlePipeline ==
    [ pc |-> "idle", agent_type |-> "", binary_data |-> NoBinary, attempt_p2 |-> 0 ]

\* pushes: the docker push calls that succeeded
NewPushObs == [ pushes |-> 0 ]

PushInit ==
    /\ mem = NewMemory
    /\ now = 0
    /\ obs = NewPushObs
    /\ memory = TRUE
    /\ probe = NoProbe
    /\ stem = NoCall
    /\ rec = NoCall
    /\ uni = NoCall
    /\ wasm = NoCall
    /\ fn = NoCall
    /\ par = [w \in Workers |-> IdlePipeline]
    /\ run = IdleRun
    /\ ctl = NewCtl
    /\ registry = EmptyMap
    /\ clock = 0
    /\ trace = NewTrace

PushFrame ==
    UNCHANGED <<mem, now, memory, run, ctl, trace, probe, stem, rec, uni, wasm, fn>>

\* create_agent of process w enters phase 2 with a class and a binary
PushEnter(w, atype, source) ==
    /\ par[w].pc = "idle"
    /\ par' = [par EXCEPT ![w] = [ pc |-> "package", agent_type |-> atype,
                                   binary_data |-> BinaryOf(source),
                                   attempt_p2 |-> 0 ]]
    /\ UNCHANGED <<obs, registry, clock>>
    /\ PushFrame

\* agent_name is taken from time.time() and build_and_push pushes the image
PushPackageOk(w) ==
    /\ par[w].pc = "package"
    /\ LET name == AgentName(par[w].agent_type, clock)
           metadata == Metadata("task", par[w].agent_type, clock)
       IN  registry' = BuildAndPush(registry, par[w].binary_data, name, metadata)
    /\ par' = [par EXCEPT ![w].pc = "verify"]
    /\ obs' = [obs EXCEPT !.pushes = @ + 1]
    /\ UNCHANGED clock
    /\ PushFrame

\* the except branch of the phase-2 loop: sleep(1) and retry while attempts
\* remain, otherwise raise
PushFailure(w) ==
    LET attempt == par[w].attempt_p2 + 1
    IN  IF Phase2Retry(attempt)
        THEN /\ clock < MaxClock
             /\ clock' = clock + 1
             /\ par' = [par EXCEPT ![w].pc = "package", ![w].attempt_p2 = attempt]
        ELSE /\ clock' = clock
             /\ par' = [par EXCEPT ![w].pc = "raised"]

\* build_and_push raises: docker build or docker push failed
PushPackageFail(w) ==
    /\ par[w].pc = "package"
    /\ PushFailure(w)
    /\ UNCHANGED <<obs, registry>>
    /\ PushFrame

\* verify_image passes and create_agent returns, or it raises
PushVerify(w, rc) ==
    /\ par[w].pc = "verify"
    /\ IF VerifyImage(rc, "")
       THEN /\ par' = [par EXCEPT ![w].pc = "returned"]
            /\ clock' = clock
       ELSE PushFailure(w)
    /\ UNCHANGED <<obs, registry>>
    /\ PushFrame

\* a second passes
PushTick ==
    /\ clock < MaxClock
    /\ clock' = clock + 1
    /\ UNCHANGED <<obs, registry, par>>
    /\ PushFrame

PushNext ==
    \/ \E w \in Workers, atype \in MemTypes, source \in Sources :
          PushEnter(w, atype, source)
    \/ \E w \in Workers : PushPackageOk(w)
    \/ \E w \in Workers : PushPackageFail(w)
    \/ \E w \in Workers, rc \in {0, 139} : PushVerify(w, rc)
    \/ PushTick

SpecPush == PushInit /\ [][PushNext]_vars

\* C29 (as claimed): registry pushes never overwrite: every push, of a retry or
\* of a parallel pipeline, uses an image name of its own, so the registry holds
\* as many names as pushes were made.
C29_PushesNeverOverwrite == Cardinality(DOMAIN registry) = obs.pushes

(***************************************************************************)
(* The context of a generation: create_agent calls, one after the other,   *)
(* each recalling the past tasks, building the generation prompt and       *)
(* ending with complete_task.                                              *)
(***************************************************************************)
\* number of create_agent calls the context scenario makes
MaxCtxTasks == 5

\* every order similarity can give the keys of a table
Rankings(S) ==
    { f \in [1..Cardinality(S) -> S] : \A i, j \in DOMAIN f : f[i] = f[j] => i = j }

\* scored[:limit]
Top(seq, limit) == IF Len(seq) <= limit THEN seq ELSE SubSeq(seq, 1, limit)

\* text[:100]; no text of the model has more than 100 characters
Head100(text) == text

\* result_summary=f"Created agent: {image_tag}", one image per task
CreatedSummary(id) == <<"Created agent: ", id>>

\* slice_for_task; ranked and caps are the episodic ids and the classes in
\* the order of their similarity to the task
SliceForTask(m, ranked, caps, atype) ==
    LET similar == Top(ranked, 3)
        isSuccess(id) == m.episodic[id].outcome = "success"
        patterns == Top(caps, 2)
    IN  [ similar_tasks |->
            [i \in DOMAIN SelectSeq(similar, isSuccess) |->
                LET t == m.episodic[SelectSeq(similar, isSuccess)[i]]
                IN  [task |-> t.refined_task, approach |-> t.result_summary]],
          relevant_patterns |->
            IF patterns = << >> THEN << >>
            ELSE Top(m.semantic[patterns[1]].task_patterns, 3)
                   \o (IF Len(patterns) > 1
                       THEN Top(m.semantic[patterns[2]].task_patterns, 3)
                       ELSE << >>),
          agent_capability |->
            IF atype \in DOMAIN m.semantic
            THEN {[ success_rate |-> CapSuccessRate(m.semantic[atype]),
                    avg_time_ms |-> m.semantic[atype].avg_execution_time_ms ]}
            ELSE {} ]

\* the lines of one similar task: its task, and its approach when it has one
TaskLines(t) ==
    <<[line |-> "- Task: ", text |-> Head100(t.task)]>>
      \o (IF t.approach # None
          THEN <<[line |-> "  Approach: ", text |-> Head100(t.approach)]>>
          ELSE << >>)

RECURSIVE SimilarLines(_)
SimilarLines(tasks) ==
    IF tasks = << >> THEN << >>
    ELSE TaskLines(Head(tasks)) \o SimilarLines(Tail(tasks))

\* format_for_prompt: the lines of the context, "" when only the title is there
FormatForPrompt(context) ==
    LET lines ==
          <<[line |-> "## Context from Previous Experience", text |-> ""]>>
          \o (IF context.similar_tasks # << >>
              THEN <<[line |-> "### Similar Past Tasks:", text |-> ""]>>
                     \o SimilarLines(context.similar_tasks)
              ELSE << >>)
          \o (IF context.relevant_patterns # << >>
              THEN <<[line |-> "### Known Patterns:",
                      text |-> Top(context.relevant_patterns, 3)]>>
              ELSE << >>)
          \o (IF context.agent_capability # {}
              THEN <<[line |-> "### Agent Stats: ",
                      text |-> context.agent_capability]>>
              ELSE << >>)
    IN  IF Len(lines) > 1 THEN lines ELSE << >>

\* the prompt of generate_go_code: the context section is there when
\* memory_context is not empty
GoPrompt(atype, memory_context) ==
    [ agent_type |-> atype,
      context_section |->
        IF memory_context # << >>
        THEN <<"Context from Past Experiences:", memory_context>>
        ELSE << >> ]

\* calls: the create_agent calls made; rows and ranked: the episodic rows the
\* last call found and their order of similarity; prompt: its prompt
NewCtxObs ==
    [ calls |-> 0, rows |-> EmptyMap, ranked |-> << >>, prompt |-> {},
      attached |-> FALSE ]

CtxInit ==
    /\ mem = NewMemory
    /\ now = 0
    /\ obs = NewCtxObs
    /\ memory \in BOOLEAN
    /\ probe = NoProbe
    /\ SideIdle
    /\ run = IdleRun
    /\ ctl = NewCtl
    /\ registry = EmptyMap
    /\ clock = 0
    /\ trace = NewTrace

\* create_agent up to the first generate_go_code call: start_task,
\* format_context_for_prompt, the log line's recall, and the prompt
CtxCreateAgent(atype) ==
    /\ obs.calls < MaxCtxTasks
    /\ ~HasCurrent(mem)
    /\ \E ranked \in Rankings(DOMAIN mem.episodic) :
       \E caps \in Rankings(DOMAIN mem.semantic) :
          LET started == StartTask(mem, "task", "refined task", atype, now)
              S == {ranked[i] : i \in DOMAIN Top(ranked, 3)}
              P == {caps[i] : i \in DOMAIN Top(caps, 2)}
              context == IF memory
                         THEN FormatForPrompt(SliceForTask(started, ranked, caps, atype))
                         ELSE << >>
          IN  /\ mem' = IF memory THEN RecallContext(started, S, P, atype, now)
                        ELSE mem
              /\ obs' = [ calls |-> obs.calls + 1, rows |-> mem.episodic,
                          ranked |-> ranked, attached |-> memory,
                          prompt |-> {GoPrompt(atype, context)} ]
    /\ UNCHANGED <<now, orch>>

\* create_agent ends: complete_task with the image's summary, or with the
\* error and no summary
CtxFinish(outcome) ==
    /\ HasCurrent(mem)
    /\ mem' = IF outcome = "success"
              THEN CompleteTask(mem, "success", CreatedSummary(CurrentId(mem)), 0,
                                NoImage, None, now)
              ELSE CompleteTask(mem, "failure", None, 0, NoImage, "error", now)
    /\ UNCHANGED <<now, obs, orch>>

CtxNext ==
    \/ \E atype \in MemTypes : CtxCreateAgent(atype)
    \/ \E outcome \in {"success", "failure"} : CtxFinish(outcome)

SpecContext == CtxInit /\ [][CtxNext]_vars

\* the approach lines of a prompt's context section, in their order
ListedSummaries(prompt) ==
    IF prompt.context_section = << >> THEN << >>
    ELSE LET isApproach(l) == l.line = "  Approach: "
             lines == SelectSeq(prompt.context_section[2], isApproach)
         IN  [i \in DOMAIN lines |-> lines[i].text]

\* the summaries of the successful rows, most similar first, three at most
SuccessSummaries(rows, ranked) ==
    LET isSuccess(id) == rows[id].outcome = "success"
        ids == Top(SelectSeq(ranked, isSuccess), 3)
    IN  [i \in DOMAIN ids |-> rows[ids[i]].result_summary]

\* C30 (as claimed): whenever successful past tasks exist in episodic memory,
\* the generation prompt of a new task has a context preamble listing their
\* summaries, up to 3, most similar first; without a memory, or with an empty
\* context, the prompt has no preamble.
C30_PromptListsPastSuccesses ==
    \A prompt \in obs.prompt :
        /\ (obs.attached /\ \E id \in DOMAIN obs.rows :
                                obs.rows[id].outcome = "success") =>
              /\ prompt.context_section # << >>
              /\ ListedSummaries(prompt) = SuccessSummaries(obs.rows, obs.ranked)
        /\ (~obs.attached \/ obs.rows = EmptyMap) => prompt.context_section = << >>

\* C31 (as claimed): refinement failure is non-fatal: when the refine LLM call
\* has failed for every model, create_agent goes on to classification with the
\* raw task as the refined task.
C31_RefineFailureNonFatal ==
    [][ RefineRaises =>
          /\ run'.pc = "generate"
          /\ ctl'.refined_task = run.task_spec
          /\ trace'.raised = "" ]_vars

(***************************************************************************)
(* The semantic loop of the lifecycle pass: tasks of one class are started *)
(* and completed, the clock advances, and passes run, with or without a    *)
(* current task.                                                           *)
(***************************************************************************)
\* number of TaskMemory objects the semantic scenario creates
MaxSemTasks == 3
\* number of lifecycle passes the semantic scenario runs
MaxSemPasses == 2

\* passes: the passes run; simS: the similarities of the semantic rows to the
\* current task in the last pass; mid: the semantic rows its semantic loop
\* found, get_all() being called after the episodic loop; quiet: the passes run
\* since the last complete_task; at: the day of the last pass
NewSemObs ==
    [ passes |-> 0, simS |-> NoSimsSemantic, mid |-> EmptyMap, quiet |-> 0,
      at |-> 0 ]

SemInit ==
    /\ mem = NewMemory
    /\ now = 0
    /\ obs = NewSemObs
    /\ memory = TRUE
    /\ probe = NoProbe
    /\ SideIdle
    /\ run = IdleRun
    /\ ctl = NewCtl
    /\ registry = EmptyMap
    /\ clock = 0
    /\ trace = NewTrace

SemStartTask ==
    /\ mem.nextId <= MaxSemTasks
    /\ ~HasCurrent(mem)
    /\ mem' = StartTask(mem, "task", "", "compute_agent", now)
    /\ UNCHANGED <<now, obs, orch>>

SemCompleteTask(outcome) ==
    /\ HasCurrent(mem)
    /\ mem' = CompleteTask(mem, outcome, "summary", 0, NoImage, None, now)
    /\ obs' = [obs EXCEPT !.quiet = 0]
    /\ UNCHANGED <<now, orch>>

\* MemoryManager.run_lifecycle
SemRunLifecycle ==
    /\ obs.passes < MaxSemPasses
    /\ \E simE \in SimsOver(mem, DOMAIN mem.episodic) :
       \E simS \in SimsOver(mem, MemTypes) :
          /\ mem' = RunLifecyclePass(mem, simE, simS, now)
          /\ obs' = [ passes |-> obs.passes + 1, simS |-> simS,
                      mid |-> LifecycleEpisodic(mem, mem.episodic,
                                                DOMAIN mem.episodic, simE,
                                                now).semantic,
                      quiet |-> obs.quiet + 1, at |-> now ]
    /\ UNCHANGED <<now, orch>>

SemNext ==
    \/ SemStartTask
    \/ \E outcome \in {"success", "failure"} : SemCompleteTask(outcome)
    \/ SemRunLifecycle
    \/ \E d \in Days : MAdvance(d)

SpecSem == SemInit /\ [][SemNext]_vars

\* the score the semantic loop gives a row it found
SemScore(a) ==
    CalculateLifecycleScore(mem, obs'.mid[a], CapSuccessRate(obs'.mid[a]),
                            obs'.simS[a], now)

\* C32 (as claimed): in a lifecycle pass a semantic row whose score is below
\* 0.2 leaves the semantic table, deleted if its success rate is below 0.5 and
\* moved to the archive otherwise; a row whose score is at least 0.2 is left
\* unchanged.
C32_ColdSemanticRowsLeave ==
    [][ obs'.passes # obs.passes =>
          \A a \in DOMAIN obs'.mid :
              /\ SemScore(a) < ThresholdSemantic => a \notin DOMAIN mem'.semantic
              /\ SemScore(a) >= ThresholdSemantic =>
                    /\ a \in DOMAIN mem'.semantic
                    /\ mem'.semantic[a] = obs'.mid[a] ]_vars

(***************************************************************************)
(* The passive buffer of the working context: add_passive_transcription    *)
(* and get_passive_buffer calls while the clock advances.                  *)
(***************************************************************************)
\* number of add_passive_transcription calls the buffer scenario makes
MaxAdds == 2

\* passive_buffer_max_minutes: int = 5
BufferMinutes == 5
\* timedelta(minutes=...) in seconds
Minutes(n) == n * 60

\* the seconds at which the calls of the buffer scenario are made
BufferTimes == {0, 1, Minutes(BufferMinutes), Minutes(BufferMinutes) + 1}
\* the transcriptions
Transcriptions == {"hello", "world"}

\* _cleanup_buffer: the entries with timestamp > datetime.now() - window stay
CleanupBuffer(buffer, time) ==
    LET fresh(entry) == entry.timestamp > time - Minutes(BufferMinutes)
    IN  SelectSeq(buffer, fresh)

\* add_to_buffer: append, then _cleanup_buffer
AddToBuffer(buffer, transcription, time) ==
    CleanupBuffer(Append(buffer, [text |-> transcription, timestamp |-> time]), time)

\* get_buffer_text: " ".join of the texts of the buffer's entries, as it is
GetBufferText(buffer) == [i \in DOMAIN buffer |-> buffer[i].text]

\* adds: the add calls made; state: whether a get_passive_buffer call has
\* returned; text: what it returned; entries: the entries it joined; at: when
NewBufObs ==
    [ adds |-> 0, state |-> "idle", text |-> << >>, entries |-> << >>, at |-> 0 ]

\* the MemoryManager with the passive buffer of its working context
BufInit ==
    /\ mem = NewMemory @@ [passive_buffer |-> << >>]
    /\ now = 0
    /\ obs = NewBufObs
    /\ memory = TRUE
    /\ probe = NoProbe
    /\ SideIdle
    /\ run = IdleRun
    /\ ctl = NewCtl
    /\ registry = EmptyMap
    /\ clock = 0
    /\ trace = NewTrace

BufFrame ==
    UNCHANGED <<now, memory, run, ctl, registry, trace, probe, side>>

\* MemoryManager.add_passive_transcription(text)
BufAdd(text) ==
    /\ obs.adds < MaxAdds
    /\ mem' = [mem EXCEPT !.passive_buffer = AddToBuffer(@, text, clock)]
    /\ obs' = [obs EXCEPT !.adds = @ + 1]
    /\ UNCHANGED clock
    /\ BufFrame

\* MemoryManager.get_passive_buffer()
BufGet ==
    /\ obs' = [obs EXCEPT !.state = "read",
                          !.text = GetBufferText(mem.passive_buffer),
                          !.entries = mem.passive_buffer,
                          !.at = clock]
    /\ UNCHANGED <<mem, clock>>
    /\ BufFrame

\* time passes
BufAdvance(t) ==
    /\ t > clock
    /\ clock' = t
    /\ UNCHANGED <<mem, obs>>
    /\ BufFrame

BufNext ==
    \/ \E text \in Transcriptions : BufAdd(text)
    \/ BufGet
    \/ \E t \in BufferTimes : BufAdvance(t)

SpecBuffer == BufInit /\ [][BufNext]_vars

\* C33 (as claimed): get_passive_buffer never returns the text of an entry
\* older than the configured window, whatever add and get calls came before.
C33_BufferEntriesExpire ==
    obs.state = "read" =>
        /\ Len(obs.text) = Len(obs.entries)
        /\ \A i \in DOMAIN obs.entries :
              obs.at - obs.entries[i].timestamp <= Minutes(BufferMinutes)

(***************************************************************************)
(* EpisodicMemory.recall_similar: tasks are completed, the clock advances  *)
(* and the episodic table is queried with a limit.                         *)
(***************************************************************************)
\* number of TaskMemory objects the similarity scenario creates
MaxSimTasks == 3
\* number of recall_similar calls the similarity scenario makes
MaxSimRecalls == 2
\* the largest limit a recall_similar call is given
MaxLimit == 2

\* the values embeddings.similarity takes in the similarity scenario
Similarities == {0, 1}

\* scored.sort(key=score, reverse=True): a stable sort of the rows, which the
\* SELECT gives in the order they were inserted
RECURSIVE SortBySimilarity(_, _)
SortBySimilarity(ids, sims) ==
    IF ids = {} THEN << >>
    ELSE LET best == CHOOSE i \in ids :
                        \A j \in ids : \/ sims[j] < sims[i]
                                       \/ sims[j] = sims[i] /\ i <= j
         IN  <<best>> \o SortBySimilarity(ids \ {best}, sims)

\* the rows recall_similar scores: embedding IS NOT NULL and not empty
Scored(epi) == { i \in DOMAIN epi : epi[i].embedding # None }

\* the elements of a sequence
Range(seq) == { seq[i] : i \in DOMAIN seq }

\* recall_similar touching every row it scored
EpisodicRecallSimilarTouchesScored(epi, sims, limit, day) ==
    LET results == Top(SortBySimilarity(Scored(epi), sims), limit)
    IN  [ results |-> [i \in DOMAIN results |-> epi[results[i]]],
          table |-> TouchAll(epi, Scored(epi), day) ]

\* EpisodicMemory.recall_similar(query, limit): the objects it returns, read
\* before the touches, and the table it leaves
EpisodicRecallSimilar(epi, sims, limit, day) ==
    LET results == Top(SortBySimilarity(Scored(epi), sims), limit)
    IN  [ results |-> [i \in DOMAIN results |-> epi[results[i]]],
          table |-> TouchAll(epi, Range(results), day) ]

\* calls: the recall_similar calls made; limit, sims: the limit of the last
\* call and the similarity of every row to its query; results: what it returned
NewSimObs == [ calls |-> 0, limit |-> 0, sims |-> EmptyMap, results |-> << >> ]

SimInit ==
    /\ mem = NewMemory
    /\ now = 0
    /\ obs = NewSimObs
    /\ memory = TRUE
    /\ probe = NoProbe
    /\ SideIdle
    /\ run = IdleRun
    /\ ctl = NewCtl
    /\ registry = EmptyMap
    /\ clock = 0
    /\ trace = NewTrace

SimStartTask ==
    /\ mem.nextId <= MaxSimTasks
    /\ ~HasCurrent(mem)
    /\ mem' = StartTask(mem, "task", "", "compute_agent", now)
    /\ UNCHANGED <<now, obs, orch>>

SimCompleteTask ==
    /\ HasCurrent(mem)
    /\ mem' = CompleteTask(mem, "success", "summary", 0, NoImage, None, now)
    /\ UNCHANGED <<now, obs, orch>>

\* EpisodicMemory.recall_similar(query, limit)
SimRecallSimilar(limit) ==
    /\ obs.calls < MaxSimRecalls
    /\ \E sims \in [DOMAIN mem.episodic -> Similarities] :
          LET call == EpisodicRecallSimilar(mem.episodic, sims, limit, now)
          IN  /\ mem' = [mem EXCEPT !.episodic = call.table]
              /\ obs' = [ calls |-> obs.calls + 1, limit |-> limit,
                          sims |-> sims, results |-> call.results ]
    /\ UNCHANGED <<now, orch>>

SimNext ==
    \/ SimStartTask
    \/ SimCompleteTask
    \/ \E limit \in 0..MaxLimit : SimRecallSimilar(limit)
    \/ \E d \in Days \ {7} : MAdvance(d)

SpecSimilar == SimInit /\ [][SimNext]_vars

\* the ids of the rows the last recall_similar call returned
ReturnedIds == { obs'.results[i].id : i \in DOMAIN obs'.results }

\* the row is what it was, but for the two fields a touch writes
TouchedOnce(before, after) ==
    /\ after.access_count = before.access_count + 1
    /\ after.last_accessed = now
    /\ [after EXCEPT !.access_count = before.access_count,
                     !.last_accessed = before.last_accessed] = before

\* C34: recall_similar(query, k) returns at most k rows, none less similar to
\* the query than a row it leaves out; each returned row has its access_count
\* raised by exactly one and its last_accessed set to the time of the call,
\* and every other row and every other field is as it was.
C34_RecallSimilarTouchesReturned ==
    [][ obs'.calls # obs.calls =>
          /\ Len(obs'.results) <= obs'.limit
          /\ Cardinality(ReturnedIds) = Len(obs'.results)
          /\ ReturnedIds \subseteq DOMAIN mem.episodic
          /\ \A i \in DOMAIN obs'.results :
                obs'.results[i] = mem.episodic[obs'.results[i].id]
          /\ \A r \in ReturnedIds : \A o \in DOMAIN mem.episodic \ ReturnedIds :
                obs'.sims[o] <= obs'.sims[r]
          /\ \A i \in 1..(Len(obs'.results) - 1) :
                obs'.sims[obs'.results[i + 1].id] <= obs'.sims[obs'.results[i].id]
          /\ Len(obs'.results) < obs'.limit => ReturnedIds = DOMAIN mem.episodic
          /\ DOMAIN mem'.episodic = DOMAIN mem.episodic
          /\ \A r \in ReturnedIds : TouchedOnce(mem.episodic[r], mem'.episodic[r])
          /\ \A o \in DOMAIN mem.episodic \ ReturnedIds :
                mem'.episodic[o] = mem.episodic[o]
          /\ [mem' EXCEPT !.episodic = mem.episodic] = mem
      ]_vars

\* a second call that returned some rows, one of them already touched, on a
\* later day than the first touch, and left another row out
C34_Witness ==
    /\ obs.calls = 2
    /\ obs.limit >= 1
    /\ Len(obs.results) = obs.limit
    /\ Cardinality(DOMAIN mem.episodic) > Len(obs.results)
    /\ \E i \in DOMAIN obs.results :
          /\ obs.results[i].access_count = 1
          /\ mem.episodic[obs.results[i].id].access_count = 2
          /\ mem.episodic[obs.results[i].id].last_accessed
                > obs.results[i].last_accessed
    /\ \E o \in DOMAIN mem.episodic : mem.episodic[o].access_count = 0

(***************************************************************************)
(* Phase 2 of create_agent and the registry.                               *)
(***************************************************************************)
\* the verify_image call of this step raised
VerifyRaised ==
    /\ run.pc = "verify"
    /\ trace'.verifies = trace.verifies + 1
    /\ run'.pc # "exec"

\* C36 (as claimed): no image that failed verification is left visible in the
\* registry: once the verify run of an image has failed, the registry does not
\* hold that image.
C36_FailedImageNotRegistered ==
    [][ VerifyRaised => ctl.image_tag \notin DOMAIN registry' ]_vars

\* C38 (as claimed): an episodic entry is distilled at most once: a lifecycle
\* pass that follows another one with no task completed in between leaves the
\* total_executions and successful_executions of every class as they were.
\* The pass looked at is one repeated on the day of the pass before it, with
\* no task in progress, so that it scores every row as that pass did.
C38_DistilledAtMostOnce ==
    [][ (/\ obs'.passes = obs.passes + 1
         /\ obs.quiet >= 1
         /\ obs.at = now
         /\ ~HasCurrent(mem)) =>
          \A a \in DOMAIN mem.semantic \cap DOMAIN mem'.semantic :
              /\ mem'.semantic[a].total_executions
                    = mem.semantic[a].total_executions
              /\ mem'.semantic[a].successful_executions
                    = mem.semantic[a].successful_executions ]_vars

(***************************************************************************)
(* handle_complex_task and the episodic table.                             *)
(***************************************************************************)
\* the episodic rows there are
Entries == Cardinality(DOMAIN mem.episodic)

CreateAgentNext ==
    \/ \E refined \in RefinedTexts, S \in SUBSET DOMAIN mem.episodic,
          P \in SUBSET DOMAIN mem.semantic : RefineStep(refined, S, P)
    \/ RefineRaises
    \/ \E source \in LlmSources : GenerateStep(source)
    \/ CompileOk
    \/ \E e \in CompileErrors : CompileFail(e)
    \/ \E source \in LlmSources : FixStep(source)
    \/ PackageOk
    \/ \E t \in ElapsedMs : PackageFail(t)
    \/ \E rc \in VerifyCodes, stdout \in Stdouts, t \in ElapsedMs :
            VerifyStep(rc, stdout, t)

SpecLive == Init /\ [][Next]_vars /\ WF_vars(CreateAgentNext)

\* create_agent is running
InCreateAgent ==
    run.pc \in {"refine", "generate", "compile", "fix", "package", "verify"}

\* this step is create_agent returning the image its verify call, the last
\* call of the attempt that pushed it, has just passed
ReturnsVerified ==
    /\ run.pc = "verify"
    /\ run'.pc = "exec"
    /\ run'.agent_source = "built"
    /\ run'.agent_image = ctl.image_tag
    /\ ctl.image_tag \in DOMAIN registry'
    /\ trace'.verifies = trace.verifies + 1
    /\ trace'.packages = trace'.pkgFails + trace'.verifies

\* this step is create_agent raising
Raises ==
    /\ run'.pc = "idle"
    /\ trace'.result = "build_failed"
    /\ trace'.raised # ""

\* C40: every run of create_agent ends, by returning an image whose verify run
\* passed in the attempt that pushed it or by raising, after at most 3 compile
\* attempts and at most 3 package and 3 verify attempts, every external call
\* returning.
C40_CreateAgentTerminates ==
    /\ [](trace.compiles <= 3 /\ trace.packages <= 3 /\ trace.verifies <= 3)
    /\ [][ (InCreateAgent /\ ~InCreateAgent') => (ReturnsVerified \/ Raises) ]_vars
    /\ InCreateAgent ~> ~InCreateAgent

\* create_agent has returned from its third package attempt, after three
\* compile attempts
C40_Witness ==
    /\ run.pc = "exec"
    /\ run.agent_source = "built"
    /\ trace.compiles = 3
    /\ trace.packages = 3
    /\ trace.verifies >= 1

====
